---- MODULE Spec2Model ----
(***************************************************************************)
(* MomentLoop backend: background job orchestration.                       *)
(*                                                                         *)
(* The module models, from backend/app/api/routes/{styles,export,videos}.py *)
(* the project-wide style fan-out, the variant / video / main-export       *)
(* selection flips and the export pipeline.  Every subsystem has its own   *)
(* variables and its own specification; a specification leaves the other   *)
(* subsystems' variables at their quiet value.                             *)
(*                                                                         *)
(* Store model.  A handler's session is a unit of work: SELECTs load rows  *)
(* (each statement sees what is committed when it runs), attribute         *)
(* assignments are kept in memory, and commit() flushes an UPDATE only for *)
(* the attributes whose final value differs from the loaded one, then      *)
(* commits.  No isolation level is configured (core/database.py), so the   *)
(* store runs at its default, READ COMMITTED.                              *)
(***************************************************************************)
EXTENDS Integers, Sequences, FiniteSets, TLC

\* ------------------------------------------------------------------ bounds
MaxPhotos == 3
MaxFanOuts == 2
\* variant selection: photos of the project, request slots, requests served
SelPhotos == 2
MaxTasks == 2
MaxOps == 4
\* export pipeline: photos of the project that may carry a scene video
ExpPhotos == 3
\* video takes: photos of the project, Video rows created
VidPhotos == 2
MaxVideos == 3
\* main export: Export rows of the project
MainExports == 3
\* exports: Export rows created by start_export and re_export
MaxExports == 2
\* jobs: Job rows left by the previous process, Job rows in all
BootJobs == 2
MaxJobs == 3
\* gates: background tasks created; Settings.max_concurrent_prompt_generations
\* (read in core/concurrency.py; any positive integer)
GateTasks == 4
PromptCapacity == 2
\* prompt tasks created by one upload
PromptTasks == 3
\* startup: projects the photos left in "styling" belong to
MaxProjects == 2
\* the detector's clock, in units of time; Settings.stuck_job_timeout_minutes
\* and Settings.stuck_export_timeout_minutes in the same unit (read in
\* core/stuck_jobs.py; the export timeout is the longer one)
MaxNow == 3
StuckTimeout == 1
ExportTimeout == 2
\* uploads: photos of the project in all, files of one request
MaxUploaded == 5
MaxFiles == 2

\* ------------------------------------------------------- program constants
\* Settings.max_concurrent_style_transfers (core/config.py)
StyleCapacity == 3
\* Settings.max_concurrent_video_generations (core/config.py)
VideoCapacity == 5
\* Settings.max_concurrent_exports (core/config.py)
ExportCapacity == 2
\* generate_prompt_for_photo(..., max_retries: int = 3)
MaxRetries == 3

NoPath == 0

VARIABLES
    \* ---- photos, variants, project (styles.py)
    photoStatus,    \* Photo.status per photo id ("none": no such row)
    photoStyled,    \* Photo.styled_path per photo id (NoPath: NULL)
    variants,       \* StyledVariant rows, in insertion order; id = index
    nextPath,       \* blob store: next unique file name (uuid4)
    projStatus,     \* Project.status
    \* ---- process_project_style_transfer task
    fanPc,          \* position of the coordinator
    fanData,        \* photo_data: the photo ids the coordinator queried
    fanIdx,         \* index of the save loop over results
    fanRuns,        \* number of stylize requests accepted so far
    taskPc,         \* per photo: position of process_single_photo_style
    taskRes,        \* per photo: the result gather() collected
    taskPath,       \* per photo: styled path returned on success
    styleFree,      \* free permits of the style_transfer semaphore
    fanRaised,      \* the coordinator ended by an escaping exception
    fanFailed,      \* history: photos whose style call failed in this run
    fanOld,         \* history: styled_path of each photo when the run began
    \* ---- requests and tasks that flip the selected variant (styles.py)
    tx,             \* per slot: the session of a request or task in progress
    opsBegun,       \* number of requests accepted so far
    lastResp,       \* history: the response of the last request
    \* ---- videos and exports (videos.py, export.py)
    photoPos,       \* Photo.position per photo id
    videos,         \* Video rows, in insertion order; id = index
    exports,        \* Export rows, in insertion order; id = index
    pipe,           \* process_export: locals and position of the task
    \* ---- process_video_generation tasks (videos.py)
    vtask,          \* per video id: position of its generation task
    videoFree,      \* free permits of the video_generation semaphore
    lastSel,        \* history: the select_photo_video or reorder call just served
    lastMain,       \* history: the set_main_export calls served
    mtx,            \* per slot: a set_main_export request being served
    \* ---- jobs, startup and the stuck-job detector (jobs.py, stuck_jobs.py)
    jobs,           \* Job rows, in insertion order; id = index
    boot,           \* lifespan: position of the startup, with its history
    sweep,          \* detect_and_reset_stuck_jobs: position and rows loaded
    clock,          \* datetime.now(timezone.utc)
    projStyle,      \* Project.style and Project.style_prompt per project
    \* ---- the admission gates seen from every kind of task (concurrency.py)
    gtask,          \* background tasks created: kind, position, outcome
    promptFree,     \* free permits of the prompt_generation semaphore
    exportFree,     \* free permits of the exports semaphore
    \* ---- generate_prompt_for_photo tasks (photos.py)
    ptask           \* per task: position, attempt, the photo's prompt status;
                    \* history: provider calls made, outcome of the last one

styleVars == <<photoStatus, photoStyled, variants, nextPath, projStatus,
               fanPc, fanData, fanIdx, fanRuns, taskPc, taskRes, taskPath,
               styleFree, fanRaised, fanFailed, fanOld>>

selVars == <<tx, opsBegun, lastResp>>

exportVars == <<photoPos, videos, exports, pipe>>

videoVars == <<vtask, videoFree, lastSel>>

mainVars == <<lastMain, mtx>>

jobVars == <<jobs, boot, sweep, clock, projStyle>>

\* State outside the media pipelines.
gateVars == <<gtask, promptFree, exportFree>>

promptVars == <<ptask>>

opsVars == <<jobVars, gateVars, promptVars>>

vars == <<styleVars, selVars, exportVars, videoVars, mainVars, opsVars>>

\* What the style fan-out and the variant requests leave alone.
notStyle == <<selVars, exportVars, videoVars, mainVars, opsVars>>

Tasks == 1..MaxTasks

\* A slot with no request in it.
IdleTx == [pc |-> "idle", kind |-> "none", photo |-> 0, target |-> 0,
           path |-> 0, loaded |-> <<>>, lStyled |-> 0, lStatus |-> "none",
           style |-> "null", prompt |-> "null"]

SelQuiet ==
    /\ tx = [t \in Tasks |-> IdleTx]
    /\ opsBegun = 0
    /\ lastResp = "none"

\* Video.video_path IS NULL
NoVideoPath == <<>>

\* process_export before it is started (sent: the events the task has
\* handed to connection_manager).
IdlePipe == [pc |-> "none", eid |-> 0, include |-> FALSE, scenes |-> <<>>,
             total |-> 0, i |-> 0, transPaths |-> <<>>, added |-> <<>>,
             final |-> <<>>, framesDir |-> "none", collected |-> FALSE,
             attempts |-> <<>>, genFailed |-> {}, extracts |-> 0,
             concats |-> 0, ffmpegFailed |-> FALSE, thumbFailed |-> FALSE,
             sent |-> {}]

\* No select_photo_video call has just been served.
NoSel == [resp |-> "none", photo |-> 0, video |-> 0, before |-> <<>>]

\* No set_main_export call has been served.
NoMain == [resp |-> "none", export |-> 0, before |-> <<>>, main |-> 0]

Projects == 1..MaxProjects

\* Project.style and Project.style_prompt both NULL.
NoStyle == [style |-> "null", prompt |-> "null"]

\* detect_and_reset_stuck_jobs in asyncio.sleep(120), no iteration run yet.
\* iter, raised, quiet and again are history: the parity of the iterations
\* begun, whether the last one ended in the except clause, whether no job
\* was created, changed or crossed its timeout since the last iteration
\* took its "now", and whether that held when this iteration began.
SleepingSweep == [pc |-> "sleep", loaded |-> {}, now |-> 0, iter |-> 0,
                  raised |-> FALSE, quiet |-> FALSE, again |-> FALSE]

\* The process is up and serving, with no Job row; the detector sleeps.
JobsQuiet ==
    /\ jobs = <<>>
    /\ boot = [phase |-> "serving", resetOk |-> TRUE, before |-> <<>>,
               served |-> FALSE, photos |-> <<>>, launched |-> {}]
    /\ sweep = SleepingSweep
    /\ clock = 0
    /\ projStyle = [pr \in Projects |-> NoStyle]

\* No background task has been created; the two gates are free.
GatesQuiet ==
    /\ gtask = <<>>
    /\ promptFree = PromptCapacity
    /\ exportFree = ExportCapacity

OpsQuiet == JobsQuiet /\ GatesQuiet /\ ptask = <<>>

\* A slot with no set_main_export request in it.
IdleMain == [pc |-> "idle", export |-> 0, ownMain |-> FALSE, others |-> {}]

\* No video task, no select or set-main request.
TakesQuiet ==
    /\ vtask = <<>>
    /\ videoFree = VideoCapacity
    /\ lastSel = NoSel
    /\ lastMain = NoMain
    /\ mtx = [t \in Tasks |-> IdleMain]

VideoQuiet == TakesQuiet /\ OpsQuiet

ExportQuiet ==
    /\ photoPos = <<>>
    /\ videos = <<>>
    /\ exports = <<>>
    /\ pipe = IdlePipe
    /\ VideoQuiet

Photos == 1..MaxPhotos

\* ----------------------------------------------------- unit of work (ORM)

\* The variant ids of photo p:
\*   select(StyledVariant).where(StyledVariant.photo_id == photo_id)
VariantIdsOf(vs, p) == {i \in DOMAIN vs : vs[i].photo = p}

\* What that SELECT loads: the committed is_selected of each of p's variants.
LoadSel(vs, p) == [i \in VariantIdsOf(vs, p) |-> vs[i].sel]

\* commit(): an UPDATE for each loaded row whose final is_selected differs
\* from the value that was loaded; other rows are not written.
Flush(vs, loaded, final) ==
    [i \in DOMAIN vs |->
        IF i \in DOMAIN loaded /\ final[i] # loaded[i]
        THEN [vs[i] EXCEPT !.sel = final[i]]
        ELSE vs[i]]

\* save_photo_result, "for v in existing_variants: v.is_selected = False"
SaveFinalKeepsSelection(loaded) == loaded
SaveFinal(loaded) == [i \in DOMAIN loaded |-> FALSE]

\* save_photo_result's commit with save_as_variant: the loaded variants are
\* deselected and the new variant is inserted selected.
SaveCommit(vs, p, path, loaded) ==
    Append(Flush(vs, loaded, SaveFinal(loaded)),
           [photo |-> p, path |-> path, sel |-> TRUE])

\* ------------------------------------------------ style transfer, one photo

\* process_single_photo_style: the try block returns (id, True, path); any
\* exception of the provider call or of saving its bytes is caught and
\* returned as (id, False, message).
StyleOutcomeEscapes(ok) == IF ok THEN "ok" ELSE "raised"
StyleOutcome(ok) == IF ok THEN "ok" ELSE "fail"

\* ---------------------------------------------------------------- fan-out

StyleInit ==
    /\ \E n \in 0..MaxPhotos :
         photoStatus = [p \in Photos |-> IF p <= n THEN "uploaded" ELSE "none"]
    /\ photoStyled = [p \in Photos |-> NoPath]
    /\ variants = <<>>
    /\ nextPath = 1
    /\ projStatus = "draft"
    /\ fanPc = "idle"
    /\ fanData = <<>>
    /\ fanIdx = 0
    /\ fanRuns = 0
    /\ taskPc = [p \in Photos |-> "idle"]
    /\ taskRes = [p \in Photos |-> "none"]
    /\ taskPath = [p \in Photos |-> NoPath]
    /\ styleFree = StyleCapacity
    /\ fanRaised = FALSE
    /\ fanFailed = {}
    /\ fanOld = [p \in Photos |-> NoPath]
    /\ SelQuiet
    /\ ExportQuiet

\* POST /projects/{id}/stylize: the project becomes "processing" and the
\* coordinator task is created.
stylize_project ==
    /\ fanPc \in {"idle", "done"}
    /\ fanRuns < MaxFanOuts
    /\ projStatus' = "processing"
    /\ fanPc' = "query"
    /\ fanRuns' = fanRuns + 1
    /\ fanData' = <<>>
    /\ fanIdx' = 0
    /\ fanFailed' = {}
    /\ fanOld' = photoStyled
    /\ taskPc' = [p \in Photos |-> "idle"]
    /\ taskRes' = [p \in Photos |-> "none"]
    /\ taskPath' = [p \in Photos |-> NoPath]
    /\ UNCHANGED <<photoStatus, photoStyled, variants, nextPath, styleFree,
                   fanRaised,
                   notStyle>>

\* The project's photo ids ordered by position (photo p has position p - 1).
RECURSIVE PhotoList(_)
PhotoList(n) ==
    IF n = 0 THEN <<>>
    ELSE IF photoStatus[n] # "none" THEN Append(PhotoList(n - 1), n)
         ELSE PhotoList(n - 1)

\* "Get all photo IDs and paths"; an empty project returns at once.
FanQuery ==
    /\ fanPc = "query"
    /\ fanData' = PhotoList(MaxPhotos)
    /\ fanPc' = IF PhotoList(MaxPhotos) = <<>> THEN "done" ELSE "mark"
    /\ UNCHANGED <<photoStatus, photoStyled, variants, nextPath, projStatus,
                   fanIdx, fanRuns, taskPc, taskRes, taskPath, styleFree,
                   fanRaised, fanFailed, fanOld,
                   notStyle>>

InFan(p) == \E k \in DOMAIN fanData : fanData[k] = p

\* "for photo_id, _ in photo_data: ... photo.status = 'styling'": the rows
\* the single commit of the marking writes.
MarkedStylingFirstOnly(p) == InFan(p) /\ fanData[1] = p
MarkedStyling(p) == InFan(p)

\* "Mark all photos as styling" (one commit), then the tasks are created
\* and gather() awaits them.
FanMark ==
    /\ fanPc = "mark"
    /\ photoStatus' = [p \in Photos |->
                          IF MarkedStyling(p) THEN "styling" ELSE photoStatus[p]]
    /\ taskPc' = [p \in Photos |-> IF InFan(p) THEN "wait" ELSE "idle"]
    /\ fanPc' = "gather"
    /\ UNCHANGED <<photoStyled, variants, nextPath, projStatus, fanData,
                   fanIdx, fanRuns, taskRes, taskPath, styleFree, fanRaised,
                   fanFailed, fanOld,
                   notStyle>>

\* process_single_photo_style: "async with semaphore_manager.style_transfer"
StyleAcquire(p) ==
    /\ taskPc[p] = "wait"
    /\ styleFree > 0
    /\ styleFree' = styleFree - 1
    /\ taskPc' = [taskPc EXCEPT ![p] = "call"]
    /\ UNCHANGED <<photoStatus, photoStyled, variants, nextPath, projStatus,
                   fanPc, fanData, fanIdx, fanRuns, taskRes, taskPath,
                   fanRaised, fanFailed, fanOld,
                   notStyle>>

\* The provider call returns (ok) or raises; the permit is released on the
\* way out of the async with block.
StyleReturn(p, ok) ==
    /\ taskPc[p] = "call"
    /\ taskPc' = [taskPc EXCEPT ![p] = "done"]
    /\ taskRes' = [taskRes EXCEPT ![p] = StyleOutcome(ok)]
    /\ taskPath' = [taskPath EXCEPT ![p] = IF ok THEN nextPath ELSE NoPath]
    /\ nextPath' = IF ok THEN nextPath + 1 ELSE nextPath
    /\ fanFailed' = IF ok THEN fanFailed ELSE fanFailed \cup {p}
    /\ styleFree' = styleFree + 1
    /\ UNCHANGED <<photoStatus, photoStyled, variants, projStatus, fanPc,
                   fanData, fanIdx, fanRuns, fanRaised, fanOld,
                   notStyle>>

\* asyncio.gather(*tasks, return_exceptions=True): an exception of a task
\* is handed back as that task's result instead of being raised in the
\* coordinator.
ReturnExceptions == TRUE

\* gather() returns once every task has ended.
FanGathered ==
    /\ fanPc = "gather"
    /\ \A p \in Photos : InFan(p) => taskPc[p] = "done"
    /\ IF ~ReturnExceptions /\ \E p \in Photos : InFan(p) /\ taskRes[p] = "raised"
       THEN fanPc' = "done" /\ fanRaised' = TRUE /\ fanIdx' = fanIdx
       ELSE fanPc' = "save" /\ fanRaised' = FALSE /\ fanIdx' = 1
    /\ UNCHANGED <<photoStatus, photoStyled, variants, nextPath, projStatus,
                   fanData, fanRuns, taskPc, taskRes, taskPath, styleFree,
                   fanFailed, fanOld,
                   notStyle>>

\* One iteration of "for result in results": an exception result is logged
\* and skipped, a success is saved by save_photo_result (new selected
\* variant, styled_path, status "styled"), a failure is reverted by
\* update_photo_status(photo_id, "uploaded").
FanSave ==
    /\ fanPc = "save"
    /\ fanIdx <= Len(fanData)
    /\ LET p == fanData[fanIdx] IN
         /\ photoStatus' =
              CASE taskRes[p] = "ok" -> [photoStatus EXCEPT ![p] = "styled"]
                [] taskRes[p] = "fail" -> [photoStatus EXCEPT ![p] = "uploaded"]
                [] OTHER -> photoStatus
         /\ photoStyled' =
              IF taskRes[p] = "ok"
              THEN [photoStyled EXCEPT ![p] = taskPath[p]]
              ELSE photoStyled
         /\ variants' =
              IF taskRes[p] = "ok"
              THEN SaveCommit(variants, p, taskPath[p], LoadSel(variants, p))
              ELSE variants
    /\ fanIdx' = fanIdx + 1
    /\ UNCHANGED <<nextPath, projStatus, fanPc, fanData, fanRuns, taskPc,
                   taskRes, taskPath, styleFree, fanRaised, fanFailed, fanOld,
                   notStyle>>

\* process_project_style_transfer, "project.status = 'draft'"
ProjectAfterFanOutKept == "processing"
ProjectAfterFanOut == "draft"

\* "Update project status": the project goes back to "draft".
FanProject ==
    /\ fanPc = "save"
    /\ fanIdx > Len(fanData)
    /\ projStatus' = ProjectAfterFanOut
    /\ fanPc' = "done"
    /\ UNCHANGED <<photoStatus, photoStyled, variants, nextPath, fanData,
                   fanIdx, fanRuns, taskPc, taskRes, taskPath, styleFree,
                   fanRaised, fanFailed, fanOld,
                   notStyle>>

FanNext ==
    \/ stylize_project
    \/ FanQuery
    \/ FanMark
    \/ \E p \in Photos : StyleAcquire(p)
    \/ \E p \in Photos, ok \in BOOLEAN : StyleReturn(p, ok)
    \/ FanGathered
    \/ FanSave
    \/ FanProject

SpecFanOut == StyleInit /\ [][FanNext]_vars

\* C1: when a project-wide fan-out has finished, exactly the photos whose
\* style call failed are back at "uploaded", every other photo of the
\* fan-out is "styled" with a styled path that is new, and the coordinator
\* did not end by an exception.
C1_FanOutPartialFailure ==
    (fanPc = "done" /\ fanData # <<>>) =>
        /\ ~fanRaised
        /\ \A p \in Photos : InFan(p) =>
             IF p \in fanFailed
             THEN photoStatus[p] = "uploaded"
             ELSE /\ photoStatus[p] = "styled"
                  /\ photoStyled[p] # NoPath
                  /\ photoStyled[p] # fanOld[p]
                  /\ photoStyled[p] = taskPath[p]

C1_Witness ==
    /\ fanPc = "done"
    /\ Len(fanData) = MaxPhotos
    /\ fanFailed # {}
    /\ \E p \in Photos : InFan(p) /\ p \notin fanFailed
    /\ fanRuns = 2

\* ------------------------------------------- selecting the styled variant
\* Requests run in slots; a slot holds the session state of one request or
\* background task between its awaits.  limit is the number of requests
\* that may be in progress together.

Busy == {t \in Tasks : tx[t].pc # "idle"}

VarInit ==
    /\ photoStatus = [p \in Photos |-> IF p <= SelPhotos THEN "uploaded" ELSE "none"]
    /\ photoStyled = [p \in Photos |-> NoPath]
    /\ variants = <<>>
    /\ nextPath = 1
    /\ projStatus = "draft"
    /\ fanPc = "idle"
    /\ fanData = <<>>
    /\ fanIdx = 0
    /\ fanRuns = 0
    /\ taskPc = [p \in Photos |-> "idle"]
    /\ taskRes = [p \in Photos |-> "none"]
    /\ taskPath = [p \in Photos |-> NoPath]
    /\ styleFree = StyleCapacity
    /\ fanRaised = FALSE
    /\ fanFailed = {}
    /\ fanOld = [p \in Photos |-> NoPath]
    /\ SelQuiet
    /\ ExportQuiet

fanQuiet == <<projStatus, fanPc, fanData, fanIdx, fanRuns, taskPc, taskRes,
              taskPath, fanRaised, fanFailed, fanOld, exportVars, videoVars, mainVars,
              opsVars>>

\* POST /photos/{id}/regenerate: the photo is committed as "styling" and
\* process_style_transfer_for_photo is created (save_as_variant=True).
regenerate_photo_style(t, p, limit) ==
    /\ tx[t].pc = "idle"
    /\ Cardinality(Busy) < limit
    /\ opsBegun < MaxOps
    /\ photoStatus[p] # "none"
    /\ photoStatus' = [photoStatus EXCEPT ![p] = "styling"]
    /\ tx' = [tx EXCEPT ![t] = [IdleTx EXCEPT !.pc = "start", !.kind = "regen",
                                              !.photo = p]]
    /\ opsBegun' = opsBegun + 1
    /\ lastResp' = "started"
    /\ UNCHANGED <<photoStyled, variants, nextPath, styleFree, fanQuiet>>

\* process_style_transfer_for_photo: the photo's path is read, then
\* update_photo_status(photo_id, "styling").
RegenStart(t) ==
    /\ tx[t].pc = "start"
    /\ photoStatus' = [photoStatus EXCEPT ![tx[t].photo] = "styling"]
    /\ tx' = [tx EXCEPT ![t].pc = "wait"]
    /\ UNCHANGED <<photoStyled, variants, nextPath, styleFree, fanQuiet,
                   opsBegun, lastResp>>

\* process_single_photo_style: the gate is entered.
RegenAcquire(t) ==
    /\ tx[t].pc = "wait"
    /\ styleFree > 0
    /\ styleFree' = styleFree - 1
    /\ tx' = [tx EXCEPT ![t].pc = "call"]
    /\ UNCHANGED <<photoStatus, photoStyled, variants, nextPath, fanQuiet,
                   opsBegun, lastResp>>

\* The style call ends; the gate is left.  A success goes on to
\* save_photo_result, a failure to update_photo_status(.., "uploaded").
RegenReturn(t, ok) ==
    /\ tx[t].pc = "call"
    /\ styleFree' = styleFree + 1
    /\ tx' = [tx EXCEPT ![t].pc = IF StyleOutcome(ok) = "ok" THEN "save_read"
                                                            ELSE "revert",
                        ![t].path = IF ok THEN nextPath ELSE NoPath]
    /\ nextPath' = IF ok THEN nextPath + 1 ELSE nextPath
    /\ UNCHANGED <<photoStatus, photoStyled, variants, fanQuiet, opsBegun,
                   lastResp>>

\* update_photo_status(photo_id, "uploaded") after a failed style call.
RegenRevert(t) ==
    /\ tx[t].pc = "revert"
    /\ photoStatus' = [photoStatus EXCEPT ![tx[t].photo] = "uploaded"]
    /\ tx' = [tx EXCEPT ![t] = IdleTx]
    /\ lastResp' = "reverted"
    /\ UNCHANGED <<photoStyled, variants, nextPath, styleFree, fanQuiet,
                   opsBegun>>

\* save_photo_result: the photo and its existing variants are loaded.
SaveRead(t) ==
    /\ tx[t].pc = "save_read"
    /\ tx' = [tx EXCEPT ![t].pc = "save_commit",
                        ![t].loaded = LoadSel(variants, tx[t].photo),
                        ![t].lStyled = photoStyled[tx[t].photo],
                        ![t].lStatus = photoStatus[tx[t].photo]]
    /\ UNCHANGED <<photoStatus, photoStyled, variants, nextPath, styleFree,
                   fanQuiet, opsBegun, lastResp>>

\* save_photo_result: commit.  The loaded variants are deselected, the new
\* variant is inserted selected, the photo gets the new styled_path and
\* status "styled" (each written when it differs from what was loaded).
SaveDone(t) ==
    /\ tx[t].pc = "save_commit"
    /\ LET p == tx[t].photo IN
         /\ variants' = SaveCommit(variants, p, tx[t].path, tx[t].loaded)
         /\ photoStyled' = IF tx[t].path # tx[t].lStyled
                           THEN [photoStyled EXCEPT ![p] = tx[t].path]
                           ELSE photoStyled
         /\ photoStatus' = IF tx[t].lStatus # "styled"
                           THEN [photoStatus EXCEPT ![p] = "styled"]
                           ELSE photoStatus
    /\ tx' = [tx EXCEPT ![t] = IdleTx]
    /\ lastResp' = "saved"
    /\ UNCHANGED <<nextPath, styleFree, fanQuiet, opsBegun>>

\* select_photo_variant, "Select the chosen variant" after "Deselect all".
SelectFinal(loaded, target) == [i \in DOMAIN loaded |-> i = target]

\* POST /photos/{id}/variants/select: the photo is loaded, then the variant
\* named by the request, which must belong to the photo (404 otherwise).
select_photo_variant(t, p, v, limit) ==
    /\ tx[t].pc = "idle"
    /\ Cardinality(Busy) < limit
    /\ opsBegun < MaxOps
    /\ photoStatus[p] # "none"
    /\ opsBegun' = opsBegun + 1
    /\ IF v \in VariantIdsOf(variants, p)
       THEN /\ tx' = [tx EXCEPT ![t] =
                        [IdleTx EXCEPT !.pc = "sel_read", !.kind = "select",
                                       !.photo = p, !.target = v,
                                       !.loaded = (v :> variants[v].sel),
                                       !.lStyled = photoStyled[p],
                                       !.lStatus = photoStatus[p]]]
            /\ lastResp' = "started"
       ELSE /\ tx' = tx
            /\ lastResp' = "404"
    /\ UNCHANGED <<photoStatus, photoStyled, variants, nextPath, styleFree,
                   fanQuiet>>

\* select_photo_variant: all variants of the photo are loaded; the row that
\* is already in the session keeps the state it was loaded with.
SelectRead(t) ==
    /\ tx[t].pc = "sel_read"
    /\ LET now == LoadSel(variants, tx[t].photo) IN
         tx' = [tx EXCEPT ![t].pc = "sel_commit",
                          ![t].loaded =
                              [i \in DOMAIN now \cup {tx[t].target} |->
                                  IF i = tx[t].target
                                  THEN tx[t].loaded[i]
                                  ELSE now[i]]]
    /\ UNCHANGED <<photoStatus, photoStyled, variants, nextPath, styleFree,
                   fanQuiet, opsBegun, lastResp>>

\* select_photo_variant: commit.  Only the chosen variant stays selected
\* and the photo's styled_path becomes the chosen variant's.
SelectDone(t) ==
    /\ tx[t].pc = "sel_commit"
    /\ LET p == tx[t].photo
           v == tx[t].target IN
         /\ variants' = Flush(variants, tx[t].loaded,
                              SelectFinal(tx[t].loaded, v))
         /\ photoStyled' = IF variants[v].path # tx[t].lStyled
                           THEN [photoStyled EXCEPT ![p] = variants[v].path]
                           ELSE photoStyled
    /\ tx' = [tx EXCEPT ![t] = IdleTx]
    /\ lastResp' = "selected"
    /\ UNCHANGED <<photoStatus, nextPath, styleFree, fanQuiet, opsBegun>>

VarNext(limit) ==
    \/ \E t \in Tasks, p \in Photos : regenerate_photo_style(t, p, limit)
    \/ \E t \in Tasks : RegenStart(t)
    \/ \E t \in Tasks : RegenAcquire(t)
    \/ \E t \in Tasks, ok \in BOOLEAN : RegenReturn(t, ok)
    \/ \E t \in Tasks : RegenRevert(t)
    \/ \E t \in Tasks : SaveRead(t)
    \/ \E t \in Tasks : SaveDone(t)
    \/ \E t \in Tasks, p \in Photos, v \in 1..MaxOps :
          select_photo_variant(t, p, v, limit)
    \/ \E t \in Tasks : SelectRead(t)
    \/ \E t \in Tasks : SelectDone(t)

\* Requests served one at a time.
VarNextSeq == VarNext(1)
SpecVariantSeq == VarInit /\ [][VarNextSeq]_vars

\* Any two requests may be in progress together.
VarNextConc == VarNext(MaxTasks)
SpecVariantConc == VarInit /\ [][VarNextConc]_vars

SelectedOf(p) == {i \in VariantIdsOf(variants, p) : variants[i].sel}

\* C6: with requests served one at a time, once a photo has a variant
\* (a save_photo_result has committed), between requests exactly one of its
\* variants is selected and the photo's styled_path is that variant's.
C6_OneSelectedVariant ==
    Busy = {} =>
        \A p \in Photos : VariantIdsOf(variants, p) # {} =>
            /\ Cardinality(SelectedOf(p)) = 1
            /\ \A i \in SelectedOf(p) : photoStyled[p] = variants[i].path

C6_Witness ==
    /\ Busy = {}
    /\ lastResp = "selected"
    /\ \E p \in Photos, i \in DOMAIN variants :
          /\ variants[i].photo = p
          /\ variants[i].sel
          /\ Cardinality(VariantIdsOf(variants, p)) >= 2
          /\ i # Len(variants)
          /\ \E j \in VariantIdsOf(variants, p) : j > i

\* C7: with two requests that flip a photo's selected variant in progress
\* together, once both have committed at most one variant of the photo is
\* selected.
C7_AtMostOneSelected ==
    Busy = {} => \A p \in Photos : Cardinality(SelectedOf(p)) <= 1

\* --------------------------------------------------------- export pipeline

EPhotos == 1..ExpPhotos

\* The permutations of 0..n-1 as position assignments of the photos.
Positions == {f \in [EPhotos -> 0..(ExpPhotos - 1)] :
                 \A p, q \in EPhotos : p # q => f[p] # f[q]}

\* A scene video as generate_video_from_photo and process_video_generation
\* leave it: ready and selected, ready and deselected by a later request,
\* or still pending.  Video.position is the photo's position when the video
\* was requested (photo p was uploaded p-th); PATCH /photos/{id} moves the
\* photo afterwards without touching its videos.
SceneVideo(p, kind) ==
    [photo |-> p, vtype |-> "scene",
     status |-> IF kind = "pending" THEN "pending" ELSE "ready",
     sel |-> (kind = "ready_selected"),
     path |-> IF kind = "pending" THEN NoVideoPath ELSE <<"scene", p>>,
     pos |-> p - 1, src |-> 0, tgt |-> 0]

VideoKinds == {"ready_selected", "ready_unselected", "pending"}

ExportInit ==
    /\ photoPos \in Positions
    /\ \E k \in [EPhotos -> VideoKinds] :
          videos = [p \in EPhotos |-> SceneVideo(p, k[p])]
    /\ exports = <<>>
    /\ pipe = IdlePipe
    /\ photoStatus = [p \in Photos |-> "none"]
    /\ photoStyled = [p \in Photos |-> NoPath]
    /\ variants = <<>>
    /\ nextPath = 1
    /\ projStatus = "draft"
    /\ fanPc = "idle"
    /\ fanData = <<>>
    /\ fanIdx = 0
    /\ fanRuns = 0
    /\ taskPc = [p \in Photos |-> "idle"]
    /\ taskRes = [p \in Photos |-> "none"]
    /\ taskPath = [p \in Photos |-> NoPath]
    /\ styleFree = StyleCapacity
    /\ fanRaised = FALSE
    /\ fanFailed = {}
    /\ fanOld = [p \in Photos |-> NoPath]
    /\ SelQuiet
    /\ VideoQuiet

notExport == <<styleVars, selVars, videoVars, mainVars, opsVars>>

NewExport == [status |-> "pending", isMain |-> FALSE, error |-> "",
              step |-> "", percent |-> 0, file |-> FALSE, thumb |-> FALSE]

\* POST /projects/{id}/export: 400 unless the project has a ready video;
\* otherwise an Export row is committed as "pending" and process_export is
\* handed to the background tasks.
start_export(include) ==
    /\ pipe.pc = "none"
    /\ exports = <<>>
    /\ IF \E v \in DOMAIN videos : videos[v].status = "ready"
       THEN /\ exports' = Append(exports, NewExport)
            /\ pipe' = [IdlePipe EXCEPT !.pc = "start", !.eid = Len(exports) + 1,
                                        !.include = include]
       ELSE /\ exports' = exports
            /\ pipe' = [IdlePipe EXCEPT !.pc = "rejected"]
    /\ UNCHANGED <<photoPos, videos, notExport>>

\* db.commit() inside process_export: the rows added to the session are
\* inserted.
Committed(vs, added) == vs \o added

\* update_export_progress(db, export, step, detail, percent)
Progress(e, step, percent) == [e EXCEPT !.step = step, !.percent = percent]

\* "export.status = 'processing'", progress 0.
ExpBegin ==
    /\ pipe.pc = "start"
    /\ exports' = [exports EXCEPT ![pipe.eid] =
                     Progress([@ EXCEPT !.status = "processing"],
                              "collecting_videos", 0)]
    /\ pipe' = [pipe EXCEPT !.pc = "collect"]
    /\ UNCHANGED <<photoPos, videos, notExport>>

\* PHASE 1, the WHERE clause: ready, with a path, a scene, selected (and
\* joined to its photo).
Eligible(v) ==
    /\ videos[v].photo # 0
    /\ videos[v].status = "ready"
    /\ videos[v].path # NoVideoPath
    /\ videos[v].vtype = "scene"
    /\ videos[v].sel

\* PHASE 1, ".order_by(Photo.position)"
OrderKeyVideoPosition(v) == videos[v].pos
OrderKey(v) == photoPos[videos[v].photo]

RECURSIVE SortedByKey(_)
SortedByKey(S) ==
    IF S = {} THEN <<>>
    ELSE LET v == CHOOSE x \in S : \A y \in S : OrderKey(x) <= OrderKey(y)
         IN <<v>> \o SortedByKey(S \ {v})

\* "if not scene_videos"
NoScenesNever(scenes) == FALSE
NoScenes(scenes) == scenes = <<>>

\* total_transitions
TotalTransitions(include, n) == IF include /\ n > 1 THEN n - 1 ELSE 0

\* PHASE 1: collect.  No scene is a hard failure; otherwise progress 10 and,
\* when transitions are to be generated, the frames directory is created.
ExpCollect ==
    /\ pipe.pc = "collect"
    /\ LET scenes == SortedByKey({v \in DOMAIN videos : Eligible(v)})
           total == TotalTransitions(pipe.include, Len(scenes))
       IN IF NoScenes(scenes)
          THEN /\ exports' = [exports EXCEPT ![pipe.eid] =
                                [@ EXCEPT !.status = "failed",
                                          !.error = "No ready videos found"]]
               /\ pipe' = [pipe EXCEPT !.pc = "cleanup", !.collected = TRUE,
                                       !.scenes = scenes]
          ELSE /\ exports' = [exports EXCEPT ![pipe.eid] =
                                Progress(@, "collecting_videos", 10)]
               /\ pipe' = [pipe EXCEPT
                              !.pc = IF total > 0 THEN "frame" ELSE "concat",
                              !.collected = TRUE, !.scenes = scenes,
                              !.total = total, !.i = 0,
                              !.framesDir = IF total > 0 THEN "exists"
                                                         ELSE "none"]
    /\ UNCHANGED <<photoPos, videos, notExport>>

\* Loop head: progress "extracting_frames", 10 + int(i / total * 10).
ExpFrameProgress ==
    /\ pipe.pc = "frame"
    /\ exports' = [exports EXCEPT ![pipe.eid] =
                     Progress(@, "extracting_frames",
                              10 + ((pipe.i * 10) \div pipe.total))]
    /\ videos' = Committed(videos, pipe.added)
    /\ pipe' = [pipe EXCEPT !.pc = "extract_a", !.added = <<>>]
    /\ UNCHANGED <<photoPos, notExport>>

\* ffmpeg_service.extract_frame of the last frame of scene i and of the
\* first frame of scene i+1; an ffmpeg error is raised to the outer handler.
ExpExtract(ok) ==
    /\ pipe.pc \in {"extract_a", "extract_b"}
    /\ pipe' = [pipe EXCEPT
                  !.pc = IF ~ok THEN "except"
                         ELSE IF pipe.pc = "extract_a" THEN "extract_b"
                         ELSE "trans_progress",
                  !.extracts = 1,
                  !.ffmpegFailed = ~ok]
    /\ UNCHANGED <<photoPos, videos, exports, notExport>>

\* progress "generating_transitions", 20 + int((i + 1) / total * 60).
ExpTransProgress ==
    /\ pipe.pc = "trans_progress"
    /\ exports' = [exports EXCEPT ![pipe.eid] =
                     Progress(@, "generating_transitions",
                              20 + (((pipe.i + 1) * 60) \div pipe.total))]
    /\ videos' = Committed(videos, pipe.added)
    /\ pipe' = [pipe EXCEPT !.pc = "generate", !.added = <<>>]
    /\ UNCHANGED <<photoPos, notExport>>

\* The try block around generate_transition: an exception of the provider
\* call (or of saving the clip) is logged and the loop continues.
GenOutcomeEscapes(ok) == IF ok THEN "ok" ELSE "raised"
GenOutcome(ok) == IF ok THEN "ok" ELSE "skipped"

\* One transition attempt for the pair (scene i, scene i+1).  A success
\* appends the clip's path to transition_paths and adds a "ready"
\* transition Video to the session.
ExpGenerate(ok) ==
    /\ pipe.pc = "generate"
    /\ LET a == pipe.scenes[pipe.i + 1]
           b == pipe.scenes[pipe.i + 2]
           clip == <<"transition", a, b>>
           row == [photo |-> 0, vtype |-> "transition", status |-> "ready",
                   sel |-> FALSE, path |-> clip, pos |-> videos[a].pos,
                   src |-> videos[a].photo, tgt |-> videos[b].photo]
           next == IF pipe.i + 1 < pipe.total THEN "frame" ELSE "loop_commit"
       IN pipe' = [pipe EXCEPT
                     !.attempts = Append(@, pipe.i + 1),
                     !.genFailed = IF ok THEN @ ELSE @ \cup {pipe.i + 1},
                     !.transPaths = IF ok THEN Append(@, clip) ELSE @,
                     !.added = IF ok THEN Append(@, row) ELSE @,
                     !.i = IF GenOutcome(ok) = "raised" THEN @ ELSE @ + 1,
                     !.pc = IF GenOutcome(ok) = "raised" THEN "except"
                            ELSE next]
    /\ UNCHANGED <<photoPos, videos, exports, notExport>>

\* "await db.commit()" after the loop.
ExpLoopCommit ==
    /\ pipe.pc = "loop_commit"
    /\ videos' = Committed(videos, pipe.added)
    /\ pipe' = [pipe EXCEPT !.pc = "concat", !.added = <<>>]
    /\ UNCHANGED <<photoPos, exports, notExport>>

\* PHASE 4: "for i, scene_path in enumerate(scene_paths)": the scene, then
\* transition_paths[i] when i < len(transition_paths).
RECURSIVE Interleave(_, _, _)
Interleave(scenePaths, transPaths, i) ==
    IF i > Len(scenePaths) THEN <<>>
    ELSE <<scenePaths[i]>>
         \o (IF i - 1 < Len(transPaths) THEN <<transPaths[i]>> ELSE <<>>)
         \o Interleave(scenePaths, transPaths, i + 1)

\* scene_paths: the full path of each collected scene video
ScenePaths(scenes) == [k \in DOMAIN scenes |-> videos[scenes[k]].path]

\* progress "concatenating" 80 and the interleaved list.
ExpConcatProgress ==
    /\ pipe.pc = "concat"
    /\ exports' = [exports EXCEPT ![pipe.eid] = Progress(@, "concatenating", 80)]
    /\ videos' = Committed(videos, pipe.added)
    /\ pipe' = [pipe EXCEPT !.pc = "concat_call", !.added = <<>>,
                            !.final = Interleave(ScenePaths(pipe.scenes),
                                                 pipe.transPaths, 1)]
    /\ UNCHANGED <<photoPos, notExport>>

\* ffmpeg_service.concatenate_videos(final_video_paths, ...); an ffmpeg
\* error is raised to the outer handler.  Then progress 90.
ExpConcat(ok) ==
    /\ pipe.pc = "concat_call"
    /\ pipe' = [pipe EXCEPT !.pc = IF ok THEN "thumb_progress" ELSE "except",
                            !.concats = 1,
                            !.ffmpegFailed = ~ok]
    /\ exports' = IF ok
                  THEN [exports EXCEPT ![pipe.eid] =
                          Progress(@, "concatenating", 90)]
                  ELSE exports
    /\ UNCHANGED <<photoPos, videos, notExport>>

\* PHASE 5: progress "generating_thumbnail" 95.
ExpThumbProgress ==
    /\ pipe.pc = "thumb_progress"
    /\ exports' = [exports EXCEPT ![pipe.eid] =
                     Progress(@, "generating_thumbnail", 95)]
    /\ pipe' = [pipe EXCEPT !.pc = "thumb"]
    /\ UNCHANGED <<photoPos, videos, notExport>>

\* "except Exception as e: logger.error(...)" of the thumbnail try block:
\* where the pipeline goes on after the block.
AfterThumbnailFatal(ok) == IF ok THEN "finalize" ELSE "except"
AfterThumbnail(ok) == "finalize"

\* The thumbnail try block (a temporary directory is created when there is
\* no frames directory); a failure is logged and the export goes on.
ExpThumb(ok) ==
    /\ pipe.pc = "thumb"
    /\ exports' = [exports EXCEPT ![pipe.eid].thumb = ok]
    /\ pipe' = [pipe EXCEPT !.pc = AfterThumbnail(ok), !.framesDir = "exists",
                            !.thumbFailed = ~ok]
    /\ UNCHANGED <<photoPos, videos, notExport>>

\* "export.file_path = relative_path; export.status = 'ready'; ..." and the
\* progress fields, written by the one commit that follows.
FinalizedStatusOnly(row) ==
    [row EXCEPT !.status = "ready", !.step = "", !.percent = 100]
Finalized(row) ==
    [row EXCEPT !.file = TRUE, !.status = "ready", !.step = "", !.percent = 100]

\* "Save relative path and mark as ready"
ExpFinalize ==
    /\ pipe.pc = "finalize"
    /\ exports' = [exports EXCEPT ![pipe.eid] = Finalized(@)]
    /\ pipe' = [pipe EXCEPT !.pc = "cleanup"]
    /\ UNCHANGED <<photoPos, videos, notExport>>

\* "except Exception": the export is failed with the error, percent 0.
ExpFail ==
    /\ pipe.pc = "except"
    /\ exports' = [exports EXCEPT ![pipe.eid] =
                     [@ EXCEPT !.status = "failed", !.error = "exception",
                               !.percent = 0]]
    /\ videos' = Committed(videos, pipe.added)
    /\ pipe' = [pipe EXCEPT !.pc = "cleanup", !.added = <<>>]
    /\ UNCHANGED <<photoPos, notExport>>

\* "if frames_dir and frames_dir.exists(): shutil.rmtree(frames_dir, ...)"
CleanupSkipped(dir) == dir
Cleanup(dir) == IF dir = "exists" THEN "removed" ELSE dir

\* "finally": the frames directory is removed when there is one.
ExpCleanup ==
    /\ pipe.pc = "cleanup"
    /\ pipe' = [pipe EXCEPT !.pc = "done", !.framesDir = Cleanup(@)]
    /\ UNCHANGED <<photoPos, videos, exports, notExport>>

\* re_export, "Create new export record": a new row, the original kept.
ReExportedInPlace(exps, e) == [exps EXCEPT ![e] = NewExport]
ReExported(exps, e) == Append(exps, NewExport)

\* POST /exports/{id}/re-export: 404 for an unknown export, 400 unless the
\* project has a ready video; otherwise a new "pending" Export is committed
\* and process_export is handed to the background tasks.  (It is taken
\* here once the previous pipeline has ended.)
re_export(e, include) ==
    /\ pipe.pc = "done"
    /\ Len(exports) < MaxExports
    /\ IF e \in DOMAIN exports /\ \E v \in DOMAIN videos : videos[v].status = "ready"
       THEN /\ exports' = ReExported(exports, e)
            /\ pipe' = [IdlePipe EXCEPT !.pc = "start", !.eid = Len(exports'),
                                        !.include = include]
       ELSE UNCHANGED <<exports, pipe>>
    /\ UNCHANGED <<photoPos, videos, notExport>>

ExportNext ==
    \/ \E include \in BOOLEAN : start_export(include)
    \/ \E e \in 1..MaxExports, include \in BOOLEAN : re_export(e, include)
    \/ ExpBegin
    \/ ExpCollect
    \/ ExpFrameProgress
    \/ \E ok \in BOOLEAN : ExpExtract(ok)
    \/ ExpTransProgress
    \/ \E ok \in BOOLEAN : ExpGenerate(ok)
    \/ ExpLoopCommit
    \/ ExpConcatProgress
    \/ \E ok \in BOOLEAN : ExpConcat(ok)
    \/ ExpThumbProgress
    \/ \E ok \in BOOLEAN : ExpThumb(ok)
    \/ ExpFinalize
    \/ ExpFail
    \/ ExpCleanup

SpecExport == ExportInit /\ [][ExportNext]_vars

\* The export the pipeline works on.
TheExport == exports[pipe.eid]

IsScenePath(x) == x[1] = "scene"

\* C2: in the list handed to concatenation, the clip generated for the pair
\* (scene i, scene i+1) stands right after scene i and right before scene
\* i+1, and the two scenes of a boundary whose attempt failed are adjacent.
C2_TransitionsAtTheirBoundary ==
    pipe.concats = 1 =>
        LET f == pipe.final IN
        /\ \A j \in DOMAIN f :
              f[j][1] = "transition" =>
                  /\ j > 1
                  /\ j < Len(f)
                  /\ f[j - 1] = videos[f[j][2]].path
                  /\ f[j + 1] = videos[f[j][3]].path
        /\ \A i \in pipe.genFailed :
              \E j \in 1..(Len(f) - 1) :
                  /\ f[j] = videos[pipe.scenes[i]].path
                  /\ f[j + 1] = videos[pipe.scenes[i + 1]].path

\* C3: the list handed to concatenation holds the clip of every ready,
\* selected scene video exactly once, in ascending order of the photos'
\* positions, whatever transition attempts failed; it has at least N items.
C3_AllScenesInPhotoOrder ==
    pipe.concats = 1 =>
        LET sc == SelectSeq(pipe.final, IsScenePath)
            want == {v \in DOMAIN videos : Eligible(v)}
        IN /\ Len(sc) = Cardinality(want)
           /\ \A v \in want : \E k \in DOMAIN sc : sc[k] = videos[v].path
           /\ \A k \in 1..(Len(sc) - 1) : photoPos[sc[k][2]] < photoPos[sc[k + 1][2]]
           /\ Len(pipe.final) >= Cardinality(want)

C3_Witness ==
    /\ pipe.concats = 1
    /\ Len(pipe.scenes) = ExpPhotos
    /\ pipe.genFailed # {}
    /\ Len(pipe.transPaths) > 0
    /\ \E k \in 1..(Len(pipe.scenes) - 1) :
          videos[pipe.scenes[k]].pos > videos[pipe.scenes[k + 1]].pos

\* C4: when the pipeline has ended and no ffmpeg call (frame extraction,
\* concatenation) failed, it has made one generation attempt per adjacent
\* pair, in order, if transitions are enabled and there are at least two
\* scenes, and none otherwise; and the export is "ready" however many of
\* the generation calls failed.
C4_TransitionAttempts ==
    (pipe.pc = "done" /\ pipe.collected /\ pipe.scenes # <<>>
        /\ ~pipe.ffmpegFailed) =>
        /\ TheExport.status = "ready"
        /\ IF pipe.include /\ Len(pipe.scenes) >= 2
           THEN pipe.attempts = [k \in 1..(Len(pipe.scenes) - 1) |-> k]
           ELSE pipe.attempts = <<>>

C4_Witness ==
    /\ pipe.pc = "done"
    /\ TheExport.status = "ready"
    /\ Len(pipe.scenes) = ExpPhotos
    /\ pipe.genFailed = 1..(ExpPhotos - 1)

\* C5: once the collect phase has found no scene video, the export is
\* "failed" with the message "No ready videos found" (and stays so), and
\* no frame extraction, transition generation or concatenation is invoked.
C5_NoScenesFailsExport ==
    (pipe.collected /\ pipe.scenes = <<>>) =>
        /\ TheExport.status = "failed"
        /\ TheExport.error = "No ready videos found"
        /\ pipe.extracts = 0
        /\ pipe.attempts = <<>>
        /\ pipe.concats = 0

C5_Witness ==
    /\ pipe.pc = "done"
    /\ pipe.collected
    /\ pipe.scenes = <<>>
    /\ TheExport.status = "failed"
    /\ \E v \in DOMAIN videos : videos[v].status = "ready"

\* ------------------------------------------------- video takes of a photo

StyleQuiet ==
    /\ photoStatus = [p \in Photos |-> "none"]
    /\ photoStyled = [p \in Photos |-> NoPath]
    /\ variants = <<>>
    /\ nextPath = 1
    /\ projStatus = "draft"
    /\ fanPc = "idle"
    /\ fanData = <<>>
    /\ fanIdx = 0
    /\ fanRuns = 0
    /\ taskPc = [p \in Photos |-> "idle"]
    /\ taskRes = [p \in Photos |-> "none"]
    /\ taskPath = [p \in Photos |-> NoPath]
    /\ styleFree = StyleCapacity
    /\ fanRaised = FALSE
    /\ fanFailed = {}
    /\ fanOld = [p \in Photos |-> NoPath]

VideoInit ==
    /\ photoPos = [p \in 1..VidPhotos |-> p - 1]
    /\ videos = <<>>
    /\ exports = <<>>
    /\ pipe = IdlePipe
    /\ VideoQuiet
    /\ StyleQuiet
    /\ SelQuiet

notVideo == <<styleVars, selVars, photoPos, exports, pipe, mainVars, opsVars>>

\* select(Video).where(Video.photo_id == photo_id, Video.video_type == "scene")
SceneVideosOf(vs, p) ==
    {v \in DOMAIN vs : vs[v].photo = p /\ vs[v].vtype = "scene"}

\* "for v in ...: v.is_selected = False" over the rows of S
Deselect(vs, S) ==
    [v \in DOMAIN vs |-> IF v \in S THEN [vs[v] EXCEPT !.sel = FALSE] ELSE vs[v]]

\* POST /photos/{id}/generate-video: 404 for an unknown photo, 400 without
\* a prompt; otherwise the photo's scene videos are deselected, a new
\* "pending", unselected Video is committed and its task is created.
generate_video_from_photo(p, hasPrompt) ==
    /\ Len(videos) < MaxVideos
    /\ lastSel' = NoSel
    /\ IF p \in DOMAIN photoPos /\ hasPrompt
       THEN /\ videos' = Append(Deselect(videos, SceneVideosOf(videos, p)),
                                [photo |-> p, vtype |-> "scene",
                                 status |-> "pending", sel |-> FALSE,
                                 path |-> NoVideoPath, pos |-> photoPos[p],
                                 src |-> 0, tgt |-> 0])
            /\ vtask' = Append(vtask, "wait")
       ELSE UNCHANGED <<videos, vtask>>
    /\ UNCHANGED <<videoFree, notVideo>>

\* POST /videos/transition: 404 unless both photos exist (one project is
\* modelled, so the same-project test passes); a "pending" transition Video
\* without photo_id is committed and its task is created.
generate_transition_video(a, b) ==
    /\ Len(videos) < MaxVideos
    /\ lastSel' = NoSel
    /\ IF a \in DOMAIN photoPos /\ b \in DOMAIN photoPos
       THEN /\ videos' = Append(videos,
                                [photo |-> 0, vtype |-> "transition",
                                 status |-> "pending", sel |-> FALSE,
                                 path |-> NoVideoPath, pos |-> photoPos[a],
                                 src |-> a, tgt |-> b])
            /\ vtask' = Append(vtask, "wait")
       ELSE UNCHANGED <<videos, vtask>>
    /\ UNCHANGED <<videoFree, notVideo>>

\* process_video_generation: the status written before the provider call
StatusBeforeCallSkipped == "pending"
StatusBeforeCall == "generating"

\* process_video_generation: "async with semaphore_manager.video_generation"
VidAcquire(v) ==
    /\ vtask[v] = "wait"
    /\ videoFree > 0
    /\ videoFree' = videoFree - 1
    /\ vtask' = [vtask EXCEPT ![v] = "start"]
    /\ lastSel' = NoSel
    /\ UNCHANGED <<videos, notVideo>>

\* update_video_status(video_id, "generating")
VidGenerating(v) ==
    /\ vtask[v] = "start"
    /\ videos' = [videos EXCEPT ![v].status = StatusBeforeCall]
    /\ vtask' = [vtask EXCEPT ![v] = "call"]
    /\ lastSel' = NoSel
    /\ UNCHANGED <<videoFree, notVideo>>

\* The provider call and save_video end: ok, or an exception that the
\* except clause catches.
VidReturn(v, ok) ==
    /\ vtask[v] = "call"
    /\ vtask' = [vtask EXCEPT ![v] = IF ok THEN "save" ELSE "fail"]
    /\ lastSel' = NoSel
    /\ UNCHANGED <<videos, videoFree, notVideo>>

\* "Update record and mark as selected (deselect others for same photo)",
\* one commit; the gate is left.
VidSave(v) ==
    /\ vtask[v] = "save"
    /\ LET p == videos[v].photo
           others == IF p # 0 THEN Deselect(videos, SceneVideosOf(videos, p))
                     ELSE videos
       IN videos' = [others EXCEPT ![v].path = <<"scene", v>>,
                                   ![v].status = "ready",
                                   ![v].sel = TRUE]
    /\ vtask' = [vtask EXCEPT ![v] = "done"]
    /\ videoFree' = videoFree + 1
    /\ lastSel' = NoSel
    /\ UNCHANGED notVideo

\* except: update_video_status(video_id, "failed"); the gate is left.
VidFail(v) ==
    /\ vtask[v] = "fail"
    /\ videos' = [videos EXCEPT ![v].status = "failed"]
    /\ vtask' = [vtask EXCEPT ![v] = "done"]
    /\ videoFree' = videoFree + 1
    /\ lastSel' = NoSel
    /\ UNCHANGED notVideo

\* select_photo_video, "Verify video belongs to this photo"
BelongsToAnyPhoto(v, p) == v \in DOMAIN videos
BelongsTo(v, p) == v \in DOMAIN videos /\ videos[v].photo = p

\* POST /photos/{id}/videos/select: 404 for an unknown photo or a video
\* that is not the photo's; otherwise every video of the photo is
\* deselected and the chosen one selected, in one commit.
select_photo_video(p, v) ==
    /\ IF p \in DOMAIN photoPos /\ BelongsTo(v, p)
       THEN /\ videos' = [Deselect(videos, {w \in DOMAIN videos :
                                               videos[w].photo = p})
                            EXCEPT ![v].sel = TRUE]
            /\ lastSel' = [resp |-> "ok", photo |-> p, video |-> v,
                           before |-> videos]
       ELSE /\ videos' = videos
            /\ lastSel' = [resp |-> "404", photo |-> p, video |-> v,
                           before |-> videos]
    /\ UNCHANGED <<vtask, videoFree, notVideo>>

VideoNext ==
    \/ \E p \in 1..(VidPhotos + 1), hasPrompt \in BOOLEAN :
          generate_video_from_photo(p, hasPrompt)
    \/ \E v \in DOMAIN vtask : VidAcquire(v)
    \/ \E v \in DOMAIN vtask : VidGenerating(v)
    \/ \E v \in DOMAIN vtask, ok \in BOOLEAN : VidReturn(v, ok)
    \/ \E v \in DOMAIN vtask : VidSave(v)
    \/ \E v \in DOMAIN vtask : VidFail(v)
    \/ \E p \in 1..(VidPhotos + 1), v \in 1..MaxVideos : select_photo_video(p, v)

SpecVideo == VideoInit /\ [][VideoNext]_vars

SelectedVideosOf(p) == {v \in DOMAIN videos : videos[v].photo = p /\ videos[v].sel}

\* C8: right after a successful select_photo_video call exactly one video
\* of the photo is selected, the one the call named; a call naming a video
\* that is not the photo's is rejected and leaves every row as it was.
C8_SelectVideo ==
    /\ lastSel.resp = "ok" =>
          /\ SelectedVideosOf(lastSel.photo) = {lastSel.video}
          /\ videos[lastSel.video].photo = lastSel.photo
    /\ lastSel.resp = "404" => videos = lastSel.before
    /\ (lastSel.resp # "none" /\ ~(lastSel.video \in DOMAIN lastSel.before
                                   /\ lastSel.before[lastSel.video].photo = lastSel.photo))
          => lastSel.resp = "404"

C8_Witness ==
    /\ lastSel.resp = "ok"
    /\ \E w \in DOMAIN lastSel.before :
          /\ w # lastSel.video
          /\ lastSel.before[w].photo = lastSel.photo
          /\ lastSel.before[w].sel
    /\ \E w \in DOMAIN videos : videos[w].photo # lastSel.photo /\ videos[w].sel

C8_WitnessRejected ==
    /\ lastSel.resp = "404"
    /\ lastSel.video \in DOMAIN videos
    /\ \E w \in DOMAIN videos : videos[w].sel

\* C9: in every committed state a photo with at least one ready scene
\* video has exactly one selected scene video.
C9_ReadyPhotoHasOneSelected ==
    \A p \in DOMAIN photoPos :
        (\E v \in SceneVideosOf(videos, p) : videos[v].status = "ready") =>
            Cardinality({v \in SceneVideosOf(videos, p) : videos[v].sel}) = 1

\* ------------------------------------------------------ the main export

ExportStatuses == {"pending", "processing", "ready", "failed"}

\* The project's Export rows as earlier export jobs left them; is_main is
\* False on every row until set_main_export is called.
MainInit ==
    /\ exports \in [1..MainExports ->
                      {[NewExport EXCEPT !.status = st] : st \in ExportStatuses}]
    /\ photoPos = <<>>
    /\ videos = <<>>
    /\ pipe = IdlePipe
    /\ VideoQuiet
    /\ StyleQuiet
    /\ SelQuiet

\* set_main_export, "if export.status != 'ready': raise HTTPException(400)"
ReadyForMainAlways(e) == TRUE
ReadyForMain(e) == exports[e].status = "ready"

\* POST /exports/{id}/set-main: 404 for an unknown export, 400 for one that
\* is not ready; otherwise is_main is cleared on the project's exports that
\* carry it and set on the named export, in one commit.
set_main_export(e) ==
    /\ IF e \notin DOMAIN exports
       THEN /\ lastMain' = [lastMain EXCEPT !.resp = "404", !.export = e,
                                            !.before = exports]
            /\ UNCHANGED exports
       ELSE IF ~ReadyForMain(e)
       THEN /\ lastMain' = [lastMain EXCEPT !.resp = "400", !.export = e,
                                            !.before = exports]
            /\ UNCHANGED exports
       ELSE /\ exports' = [x \in DOMAIN exports |->
                             [exports[x] EXCEPT !.isMain = (x = e)]]
            /\ lastMain' = [resp |-> "ok", export |-> e, before |-> exports,
                            main |-> e]
    /\ UNCHANGED <<styleVars, selVars, photoPos, videos, pipe, videoVars, mtx,
                   opsVars>>

MainNext == \E e \in 1..(MainExports + 1) : set_main_export(e)

SpecMain == MainInit /\ [][MainNext]_vars

MainExportsOf == {e \in DOMAIN exports : exports[e].isMain}

\* C10: once a set_main_export call has succeeded, exactly one export of
\* the project is the main one, the export named by the last successful
\* call; a call naming an export that is not ready is rejected and leaves
\* every export's flag as it was.
C10_OneMainExport ==
    /\ lastMain.main # 0 => MainExportsOf = {lastMain.main}
    /\ lastMain.resp = "ok" => lastMain.before[lastMain.export].status = "ready"
    /\ lastMain.resp \in {"400", "404"} => exports = lastMain.before
    /\ (lastMain.resp # "none" /\ lastMain.export \in DOMAIN lastMain.before
           /\ lastMain.before[lastMain.export].status # "ready")
          => lastMain.resp = "400"

C10_Witness ==
    /\ lastMain.resp = "ok"
    /\ \E x \in DOMAIN lastMain.before :
          x # lastMain.export /\ lastMain.before[x].isMain
    /\ \E x \in DOMAIN exports : exports[x].status # "ready"

C10_WitnessRejected ==
    /\ lastMain.resp = "400"
    /\ MainExportsOf # {}

\* ------------------------------------- set_main_export, requests overlapping

\* Each request runs in its own session (get_db); the handler awaits between
\* its two SELECTs and its commit, so another request may run in between.
notMainTx == <<styleVars, selVars, photoPos, videos, pipe, videoVars, lastMain,
               opsVars>>

\* select(Export).where(Export.id == export_id): 404 / 400 end the request
\* before anything is written; otherwise the row is in the session.
MainGet(t, e) ==
    /\ mtx[t].pc = "idle"
    /\ IF e \in DOMAIN exports /\ ReadyForMain(e)
       THEN mtx' = [mtx EXCEPT ![t] = [pc |-> "got", export |-> e,
                                       ownMain |-> exports[e].isMain,
                                       others |-> {}]]
       ELSE mtx' = [mtx EXCEPT ![t].pc = "rejected", ![t].export = e]
    /\ UNCHANGED <<exports, notMainTx>>

\* select(Export).where(project_id == ..., Export.is_main.is_(True))
MainQuery(t) ==
    /\ mtx[t].pc = "got"
    /\ mtx' = [mtx EXCEPT ![t].pc = "loaded",
                          ![t].others = {x \in DOMAIN exports : exports[x].isMain}]
    /\ UNCHANGED <<exports, notMainTx>>

\* "other_export.is_main = False" for the rows loaded, "export.is_main =
\* True", commit: the flush writes the attributes whose value differs from
\* the one the session loaded.
MainCommit(t) ==
    /\ mtx[t].pc = "loaded"
    /\ exports' = [x \in DOMAIN exports |->
                     IF x = mtx[t].export
                     THEN IF mtx[t].ownMain THEN exports[x]
                          ELSE [exports[x] EXCEPT !.isMain = TRUE]
                     ELSE IF x \in mtx[t].others
                          THEN [exports[x] EXCEPT !.isMain = FALSE]
                          ELSE exports[x]]
    /\ mtx' = [mtx EXCEPT ![t].pc = "done"]
    /\ UNCHANGED notMainTx

MainConcNext ==
    \/ \E t \in Tasks, e \in 1..(MainExports + 1) : MainGet(t, e)
    \/ \E t \in Tasks : MainQuery(t)
    \/ \E t \in Tasks : MainCommit(t)

SpecMainConc == MainInit /\ [][MainConcNext]_vars

\* C11: when two overlapping set_main_export calls on two different ready
\* exports have both committed, at most one export of the project is main.
C11_AtMostOneMain ==
    (/\ \A t \in Tasks : mtx[t].pc = "done"
     /\ \A t, u \in Tasks : t # u => mtx[t].export # mtx[u].export)
        => Cardinality(MainExportsOf) <= 1

\* The writers of Video.status: the two endpoints that create a Video and
\* the steps of the generation task each of them starts.
VideoTaskNext ==
    \/ \E p \in 1..(VidPhotos + 1), hasPrompt \in BOOLEAN :
          generate_video_from_photo(p, hasPrompt)
    \/ \E a, b \in 1..(VidPhotos + 1) : generate_transition_video(a, b)
    \/ \E v \in DOMAIN vtask : VidAcquire(v)
    \/ \E v \in DOMAIN vtask : VidGenerating(v)
    \/ \E v \in DOMAIN vtask, ok \in BOOLEAN : VidReturn(v, ok)
    \/ \E v \in DOMAIN vtask : VidSave(v)
    \/ \E v \in DOMAIN vtask : VidFail(v)

SpecVideoTasks == VideoInit /\ [][VideoTaskNext]_vars

\* C12: every committed status change of a Video made by the generate-video
\* or transition endpoints is pending->generating, generating->ready or
\* generating->failed; the provider call runs only while the committed
\* status is "generating", and a ready or failed video keeps its status.
C12_VideoStatusSteps ==
    [][/\ \A v \in DOMAIN videos :
            videos'[v].status # videos[v].status =>
                <<videos[v].status, videos'[v].status>> \in
                    {<<"pending", "generating">>, <<"generating", "ready">>,
                     <<"generating", "failed">>}
       /\ \A v \in DOMAIN videos' :
            vtask'[v] \in {"call", "save", "fail"} =>
                videos'[v].status = "generating"]_vars

C12_Witness ==
    /\ \E v \in DOMAIN videos : videos[v].vtype = "scene" /\ videos[v].status = "ready"
    /\ \E v \in DOMAIN videos : videos[v].vtype = "transition" /\ videos[v].status = "failed"
    /\ \E v \in DOMAIN videos : vtask[v] = "call"

\* C13: every committed status change of an Export is pending->processing,
\* processing->ready or processing->failed, so a ready or failed export
\* keeps its status; re-export adds a row and leaves every existing export
\* as it was.
C13_ExportStatusSteps ==
    [][/\ \A e \in DOMAIN exports :
            /\ e \in DOMAIN exports'
            /\ exports'[e].status # exports[e].status =>
                  <<exports[e].status, exports'[e].status>> \in
                      {<<"pending", "processing">>, <<"processing", "ready">>,
                       <<"processing", "failed">>}
       /\ Len(exports') > Len(exports) =>
            /\ \A e \in DOMAIN exports : exports'[e] = exports[e]
            /\ exports'[Len(exports')].status = "pending"]_vars

C13_Witness ==
    /\ Len(exports) = 2
    /\ exports[1].status = "ready"
    /\ exports[2].status = "failed"
    /\ pipe.pc = "done"

\* ------------------------------------ jobs, startup, the stuck-job detector

\* A Job row the previous process left behind (created: created_at, at:
\* completed_at, meaningful when done).
PriorJobs ==
    {[status |-> "running", error |-> "", done |-> FALSE, jtype |-> ty,
      created |-> 0, at |-> 0] : ty \in {"style_transfer", "export"}}
    \cup {[status |-> "completed", error |-> "", done |-> TRUE,
           jtype |-> "export", created |-> 0, at |-> 0],
          [status |-> "failed", error |-> "client", done |-> TRUE,
           jtype |-> "style_transfer", created |-> 0, at |-> 0]}

\* The process starts: lifespan has not yet run reset_orphaned_jobs.  The
\* rows left behind are older than both timeouts.
JobInit ==
    /\ jobs \in [1..BootJobs -> PriorJobs]
    /\ sweep = [SleepingSweep EXCEPT !.pc = "off"]
    /\ clock = MaxNow
    /\ projStyle = [pr \in Projects |-> NoStyle]
    /\ photoPos = <<>>
    /\ videos = <<>>
    /\ exports = <<>>
    /\ pipe = IdlePipe
    /\ TakesQuiet
    /\ StyleQuiet
    /\ SelQuiet
    /\ GatesQuiet
    /\ ptask = <<>>
    /\ boot = [phase |-> "start", resetOk |-> FALSE, before |-> jobs,
               served |-> FALSE, photos |-> photoStatus, launched |-> {}]

notJobs == <<styleVars, selVars, exportVars, videoVars, mainVars, gateVars,
             promptVars>>

\* select(Job).where(Job.status == "running")
OrphanedAll(js) == DOMAIN js
Orphaned(js) == {j \in DOMAIN js : js[j].status = "running"}

\* "job.status = 'failed'; job.error = ...; job.completed_at = now" for the
\* rows of S, one commit.
MarkFailed(js, S, msg, now) ==
    [j \in DOMAIN js |->
        IF j \in S THEN [js[j] EXCEPT !.status = "failed", !.error = msg,
                                      !.done = TRUE, !.at = now]
        ELSE js[j]]

\* lifespan, "await reset_orphaned_jobs()": the running rows are failed; an
\* exception (ok = FALSE) is logged and nothing is written.
reset_orphaned_jobs(ok) ==
    /\ boot.phase = "start"
    /\ jobs' = IF ok THEN MarkFailed(jobs, Orphaned(jobs),
                                     "Server restarted while job was running",
                                     clock)
             ELSE jobs
    /\ boot' = [boot EXCEPT !.phase = "reset", !.resetOk = ok]
    /\ UNCHANGED <<sweep, clock, projStyle, notJobs>>

\* Photo.project_id of photo p.
ProjectOf(p) == ((p - 1) % MaxProjects) + 1

\* resume_stuck_style_transfers, "if not style": NULL and the empty string
\* are both false.
HasStyleAlways(style) == TRUE
HasStyle(style) == style \notin {"null", ""}

\* select(Photo, Project).join(...).where(Photo.status == "styling")
StylingRows == {p \in Photos : photoStatus[p] = "styling"}

\* The k-th row of S in id order.
NthPhoto(S, k) == CHOOSE p \in S : Cardinality({q \in S : q < p}) = k - 1

\* What resume_stuck_style_transfers leaves alone.
notResume == <<photoStyled, variants, nextPath, projStatus, fanPc, fanData,
               fanIdx, fanRuns, taskPc, taskRes, taskPath, styleFree,
               fanRaised, fanFailed, fanOld, opsBegun, lastResp, exportVars,
               videoVars, mainVars, gateVars, promptVars>>

\* lifespan, "await resume_stuck_style_transfers()": for each photo in
\* "styling", process_style_transfer_for_photo is created with the style
\* and style_prompt of its project (save_as_variant=True), or, when the
\* project has no style, the photo is set to "uploaded"; one commit.
resume_stuck_style_transfers ==
    /\ boot.phase = "reset"
    /\ LET resumed == {p \in StylingRows : HasStyle(projStyle[ProjectOf(p)].style)}
           reset == StylingRows \ resumed
       IN /\ Cardinality(resumed) <= MaxTasks
          /\ photoStatus' = [p \in Photos |->
                               IF p \in reset THEN "uploaded" ELSE photoStatus[p]]
          /\ tx' = [t \in Tasks |->
                      IF t <= Cardinality(resumed)
                      THEN [IdleTx EXCEPT
                              !.pc = "start", !.kind = "resume",
                              !.photo = NthPhoto(resumed, t),
                              !.style = projStyle[ProjectOf(NthPhoto(resumed, t))].style,
                              !.prompt = projStyle[ProjectOf(NthPhoto(resumed, t))].prompt]
                      ELSE tx[t]]
          /\ boot' = [boot EXCEPT
                        !.phase = "resumed",
                        !.launched = {[photo |-> p,
                                       style |-> projStyle[ProjectOf(p)].style,
                                       prompt |-> projStyle[ProjectOf(p)].prompt] :
                                         p \in resumed}]
    /\ UNCHANGED <<jobs, sweep, clock, projStyle, notResume>>

\* lifespan, "asyncio.create_task(detect_and_reset_stuck_jobs())", yield:
\* requests are served from here on.
StartServing ==
    /\ boot.phase = "resumed"
    /\ boot' = [boot EXCEPT !.phase = "serving"]
    /\ sweep' = [sweep EXCEPT !.pc = "sleep"]
    /\ UNCHANGED <<jobs, clock, projStyle, notJobs>>

\* lifespan after the yield: "stuck_job_task.cancel()".
Shutdown ==
    /\ boot.phase = "serving"
    /\ boot' = [boot EXCEPT !.phase = "stopped"]
    /\ sweep' = [sweep EXCEPT !.pc = "cancelled", !.loaded = {}]
    /\ UNCHANGED <<jobs, clock, projStyle, notJobs>>

\* POST /jobs: a "running" row.
create_job(ty) ==
    /\ boot.phase = "serving"
    /\ Len(jobs) < MaxJobs
    /\ jobs' = Append(jobs, [status |-> "running", error |-> "", done |-> FALSE,
                             jtype |-> ty, created |-> clock, at |-> 0])
    /\ boot' = [boot EXCEPT !.served = TRUE]
    /\ sweep' = [sweep EXCEPT !.quiet = FALSE]
    /\ UNCHANGED <<clock, projStyle, notJobs>>

\* PATCH /jobs/{id}/complete: 404 for an unknown job; otherwise the row is
\* written "completed" whatever its status.
complete_job(j) ==
    /\ boot.phase = "serving"
    /\ jobs' = IF j \in DOMAIN jobs
               THEN [jobs EXCEPT ![j].status = "completed", ![j].done = TRUE,
                                 ![j].at = clock]
               ELSE jobs
    /\ boot' = [boot EXCEPT !.served = TRUE]
    /\ sweep' = [sweep EXCEPT !.quiet = @ /\ jobs' = jobs]
    /\ UNCHANGED <<clock, projStyle, notJobs>>

\* PATCH /jobs/{id}/fail: 404 for an unknown job; otherwise the row is
\* written "failed" with the error given, whatever its status.
fail_job(j) ==
    /\ boot.phase = "serving"
    /\ jobs' = IF j \in DOMAIN jobs
               THEN [jobs EXCEPT ![j].status = "failed", ![j].error = "client",
                                 ![j].done = TRUE, ![j].at = clock]
               ELSE jobs
    /\ boot' = [boot EXCEPT !.served = TRUE]
    /\ sweep' = [sweep EXCEPT !.quiet = @ /\ jobs' = jobs]
    /\ UNCHANGED <<clock, projStyle, notJobs>>

\* "default_timeout" for every job_type but "export", "export_timeout" for
\* "export".
TimeoutOfOneClass(ty) == StuckTimeout
TimeoutOf(ty) == IF ty = "export" THEN ExportTimeout ELSE StuckTimeout

\* Job.created_at < now - timeout
Overdue(job, now) == job.created < now - TimeoutOf(job.jtype)

\* Job.status == "running" in both SELECTs
AnyStatus(job) == TRUE
StillRunning(job) == job.status = "running"

\* stuck_jobs + stuck_exports
Stuck(js, now) ==
    {j \in DOMAIN js : StillRunning(js[j]) /\ Overdue(js[j], now)}

\* Time passes.
Tick ==
    /\ boot.phase = "serving"
    /\ clock < MaxNow
    /\ clock' = clock + 1
    /\ sweep' = [sweep EXCEPT
                   !.quiet = @ /\ \A j \in DOMAIN jobs :
                                     Overdue(jobs[j], clock + 1) = Overdue(jobs[j], clock)]
    /\ UNCHANGED <<jobs, boot, projStyle, notJobs>>

\* detect_and_reset_stuck_jobs, "except Exception as e: logger.error(...)":
\* control falls to asyncio.sleep(120) inside "while True".
AfterErrorStops == "dead"
AfterError == "sleep"

\* detect_and_reset_stuck_jobs, one iteration: "now" and the two SELECTs,
\* running rows older than the cutoff of their type; an exception
\* (ok = FALSE) ends the iteration in the except clause.
SweepRead(ok) ==
    /\ sweep.pc = "sleep"
    /\ sweep' = IF ok
                THEN [sweep EXCEPT !.pc = "loaded",
                                   !.loaded = Stuck(jobs, clock),
                                   !.now = clock, !.iter = 1 - @,
                                   !.raised = FALSE, !.again = sweep.quiet,
                                   !.quiet = TRUE]
                ELSE [sweep EXCEPT !.pc = AfterError, !.iter = 1 - @,
                                   !.raised = TRUE, !.again = FALSE,
                                   !.quiet = FALSE]
    /\ UNCHANGED <<jobs, boot, clock, projStyle, notJobs>>

\* ... the rows loaded are marked failed and committed ("if all_stuck");
\* sleep(120).  A commit that raises writes nothing.
SweepCommit(ok) ==
    /\ sweep.pc = "loaded"
    /\ ok \/ sweep.loaded # {}
    /\ jobs' = IF ok
               THEN MarkFailed(jobs, sweep.loaded,
                               "Job timed out (stuck detection)", sweep.now)
               ELSE jobs
    /\ sweep' = IF ok
                THEN [sweep EXCEPT !.pc = "sleep", !.loaded = {}, !.now = 0,
                                   !.again = FALSE]
                ELSE [sweep EXCEPT !.pc = AfterError, !.loaded = {}, !.now = 0,
                                   !.raised = TRUE, !.again = FALSE,
                                   !.quiet = FALSE]
    /\ UNCHANGED <<boot, clock, projStyle, notJobs>>

BootNext ==
    \/ \E ok \in BOOLEAN : reset_orphaned_jobs(ok)
    \/ resume_stuck_style_transfers
    \/ StartServing

SweepNext ==
    \/ \E ok \in BOOLEAN : SweepRead(ok)
    \/ \E ok \in BOOLEAN : SweepCommit(ok)

JobNext ==
    \/ BootNext
    \/ \E ty \in {"style_transfer", "export"} : create_job(ty)
    \/ \E j \in 1..(MaxJobs + 1) : complete_job(j)
    \/ \E j \in 1..(MaxJobs + 1) : fail_job(j)
    \/ SweepNext

SpecJobs == JobInit /\ [][JobNext]_vars

\* C14: every status change of a Job is running->completed or
\* running->failed, so a completed or failed job keeps its status, under
\* every interleaving of complete_job, fail_job, the orphan reset and the
\* sweep.
C14_JobStatusSteps ==
    [][\A j \in DOMAIN jobs :
          jobs'[j].status # jobs[j].status =>
              <<jobs[j].status, jobs'[j].status>> \in
                  {<<"running", "completed">>, <<"running", "failed">>}]_vars

\* C20: when reset_orphaned_jobs has completed successfully at startup,
\* every job that was running is failed with the restart message and
\* completed_at set, and every other job is as it was; until the startup is
\* over no request has been served and the detector has not started.
C20_OrphanReset ==
    /\ (boot.phase = "reset" /\ boot.resetOk) =>
          /\ DOMAIN jobs = DOMAIN boot.before
          /\ \A j \in DOMAIN jobs :
                IF boot.before[j].status = "running"
                THEN jobs[j] = [boot.before[j] EXCEPT
                                  !.status = "failed",
                                  !.error = "Server restarted while job was running",
                                  !.done = TRUE, !.at = clock]
                ELSE jobs[j] = boot.before[j]
    /\ boot.phase # "serving" => (~boot.served /\ sweep.pc = "off")
    /\ boot.phase = "start" => jobs = boot.before

C20_Witness ==
    /\ boot.phase = "reset"
    /\ boot.resetOk
    /\ \E j \in DOMAIN jobs : boot.before[j].status = "running"
    /\ \E j \in DOMAIN jobs : boot.before[j].status = "completed"

\* ------------------------------------- the admission gates, all task kinds

\* The kinds of background task and the place each is created:
\*   fanout  process_project_style_transfer -> process_single_photo_style
\*   regen   regenerate_photo_style / regenerate_styled_photo
\*             -> process_style_transfer_for_photo -> process_single_photo_style
\*   resume  resume_stuck_style_transfers -> process_style_transfer_for_photo
\*   prompt  upload_photos / google import -> generate_prompt_for_photo
\*   video   generate_video_from_photo / generate_transition_video
\*             -> process_video_generation
\*   export  start_export / re_export -> process_export
TaskKinds == {"fanout", "regen", "resume", "prompt", "video", "export"}

GateInit == StyleQuiet /\ SelQuiet /\ ExportQuiet

notGates == <<photoStatus, photoStyled, variants, nextPath, projStatus,
              fanPc, fanData, fanIdx, fanRuns, taskPc, taskRes, taskPath,
              fanRaised, fanFailed, fanOld, selVars, exportVars, vtask,
              lastSel, mainVars, jobVars, promptVars>>

\* The "async with semaphore_manager.<gate>" statement the task's function
\* runs under; process_export has none.
GateOfResumeUngated(kind) ==
    CASE kind \in {"fanout", "regen"} -> "style"
      [] kind = "prompt" -> "prompt"
      [] kind = "video" -> "video"
      [] OTHER -> "none"
GateOf(kind) ==
    CASE kind \in {"fanout", "regen", "resume"} -> "style"
      [] kind = "prompt" -> "prompt"
      [] kind = "video" -> "video"
      [] OTHER -> "none"

\* SemaphoreManager.__init__: the capacity of each semaphore.
CapacityOf(g) ==
    CASE g = "style" -> StyleCapacity
      [] g = "video" -> VideoCapacity
      [] g = "prompt" -> PromptCapacity
      [] OTHER -> ExportCapacity

FreeOf(g) ==
    CASE g = "style" -> styleFree
      [] g = "video" -> videoFree
      [] g = "prompt" -> promptFree
      [] OTHER -> exportFree

SetFree(g, n) ==
    /\ styleFree' = IF g = "style" THEN n ELSE styleFree
    /\ videoFree' = IF g = "video" THEN n ELSE videoFree
    /\ promptFree' = IF g = "prompt" THEN n ELSE promptFree
    /\ exportFree' = IF g = "exports" THEN n ELSE exportFree

\* A task is created (asyncio.create_task, gather, background_tasks).
GateSubmit(kind) ==
    /\ Len(gtask) < GateTasks
    /\ gtask' = Append(gtask, [kind |-> kind, pc |-> "created", outcome |-> "none"])
    /\ UNCHANGED <<styleFree, videoFree, promptFree, exportFree, notGates>>

\* The task reaches its "async with": it waits while the semaphore has no
\* permit and takes one; a function without the statement just goes on.
GateEnter(t) ==
    /\ gtask[t].pc = "created"
    /\ LET g == GateOf(gtask[t].kind) IN
          IF g = "none"
          THEN UNCHANGED <<styleFree, videoFree, promptFree, exportFree>>
          ELSE /\ FreeOf(g) > 0
               /\ SetFree(g, FreeOf(g) - 1)
    /\ gtask' = [gtask EXCEPT ![t].pc = "inside"]
    /\ UNCHANGED notGates

\* __aexit__ of the semaphore: the permit goes back however the body ended.
ReleasedUnlessEscaped(n, outcome) == IF outcome = "escaped" THEN n ELSE n + 1
Released(n, outcome) == n + 1

\* The body ends: normally or by an early return ("ok"), with the
\* exception caught inside the body ("caught"), or with an exception that
\* leaves the "async with" ("escaped").
GateExit(t, outcome) ==
    /\ gtask[t].pc = "inside"
    /\ LET g == GateOf(gtask[t].kind) IN
          IF g = "none"
          THEN UNCHANGED <<styleFree, videoFree, promptFree, exportFree>>
          ELSE SetFree(g, Released(FreeOf(g), outcome))
    /\ gtask' = [gtask EXCEPT ![t].pc = "ended", ![t].outcome = outcome]
    /\ UNCHANGED notGates

GateNext ==
    \/ \E kind \in TaskKinds : GateSubmit(kind)
    \/ \E t \in DOMAIN gtask : GateEnter(t)
    \/ \E t \in DOMAIN gtask, outcome \in {"ok", "caught", "escaped"} : GateExit(t, outcome)

SpecGates == GateInit /\ [][GateNext]_vars

\* The tasks of the given kinds whose function body is running.
Running(kinds) == {t \in DOMAIN gtask : gtask[t].kind \in kinds /\ gtask[t].pc = "inside"}

\* C15: at every moment at most max_concurrent_style_transfers style
\* provider calls are in flight, counting fan-out, regeneration and resume
\* tasks together, and at most max_concurrent_prompt_generations
\* prompt-generation tasks.
C15_StyleAndPromptBounded ==
    /\ Cardinality(Running({"fanout", "regen", "resume"})) <= StyleCapacity
    /\ Cardinality(Running({"prompt"})) <= PromptCapacity

C15_Witness ==
    /\ Cardinality(Running({"fanout", "regen", "resume"})) = StyleCapacity
    /\ \E t \in DOMAIN gtask : gtask[t].kind = "resume" /\ gtask[t].pc = "created"
    /\ \E t \in Running({"fanout", "regen", "resume"}) : gtask[t].kind = "fanout"
    /\ \E t \in Running({"fanout", "regen", "resume"}) : gtask[t].kind = "regen"

\* C16: at every moment at most max_concurrent_exports export pipelines
\* are running.
C16_ExportsBounded ==
    Cardinality(Running({"export"})) <= ExportCapacity

\* C17: the free permits of a gate plus the tasks inside it equal its
\* capacity, so when no gated task is running every gate is back at its
\* configured capacity, however the tasks ended.
C17_GatesReleased ==
    /\ styleFree + Cardinality(Running({"fanout", "regen", "resume"})) = StyleCapacity
    /\ videoFree + Cardinality(Running({"video"})) = VideoCapacity
    /\ promptFree + Cardinality(Running({"prompt"})) = PromptCapacity

C17_Witness ==
    /\ \A t \in DOMAIN gtask : gtask[t].pc = "ended"
    /\ \E t \in DOMAIN gtask : gtask[t].kind = "fanout" /\ gtask[t].outcome = "caught"
    /\ \E t \in DOMAIN gtask : gtask[t].kind = "video" /\ gtask[t].outcome = "escaped"
    /\ \E t \in DOMAIN gtask : gtask[t].kind = "prompt" /\ gtask[t].outcome = "ok"
    /\ styleFree = StyleCapacity

\* ------------------------------------------- prompt generation for a photo

notPrompt == <<styleVars, selVars, exportVars, videoVars, mainVars, jobVars,
               gtask, exportFree>>

\* generate_prompt_for_photo: "async with semaphore_manager.prompt_generation"
PromptAcquire(t) ==
    /\ ptask[t].pc = "created"
    /\ promptFree > 0
    /\ promptFree' = promptFree - 1
    /\ ptask' = [ptask EXCEPT ![t].pc = "load"]
    /\ UNCHANGED notPrompt

\* The photo is loaded: a missing photo, or one that already has a
\* completed prompt, ends the task; otherwise "generating" is committed.
PromptLoad(t, found) ==
    /\ ptask[t].pc = "load"
    /\ IF ~found \/ ptask[t].status = "completed"
       THEN /\ ptask' = [ptask EXCEPT ![t].pc = "ended"]
            /\ promptFree' = promptFree + 1
       ELSE /\ ptask' = [ptask EXCEPT ![t].pc = "path", ![t].status = "generating"]
            /\ UNCHANGED promptFree
    /\ UNCHANGED notPrompt

\* storage_service.get_full_path(photo.original_path); an exception goes
\* to the outer "except".
PromptPath(t, ok) ==
    /\ ptask[t].pc = "path"
    /\ ptask' = [ptask EXCEPT ![t].pc = IF ok THEN "call" ELSE "except"]
    /\ UNCHANGED <<promptFree, notPrompt>>

\* "for attempt in range(max_retries)": after a rate-limit error the loop
\* goes on while attempts are left.
AfterRateLimitOneMore(attempt) == IF attempt < MaxRetries THEN "call" ELSE "giveup"
AfterRateLimit(attempt) == IF attempt + 1 < MaxRetries THEN "call" ELSE "giveup"

\* One provider call: the prompt is committed "completed" and the task
\* ends; a rate-limit error sleeps and retries; any other error breaks.
PromptCall(t, outcome) ==
    /\ ptask[t].pc = "call"
    /\ CASE outcome = "ok" ->
              /\ ptask' = [ptask EXCEPT ![t].pc = "ended", ![t].status = "completed",
                                        ![t].calls = @ + 1, ![t].last = outcome]
              /\ promptFree' = promptFree + 1
         [] outcome = "rate_limited" ->
              /\ ptask' = [ptask EXCEPT ![t].pc = AfterRateLimit(ptask[t].attempt),
                                        ![t].attempt = @ + 1,
                                        ![t].calls = @ + 1, ![t].last = outcome]
              /\ UNCHANGED promptFree
         [] OTHER ->
              /\ ptask' = [ptask EXCEPT ![t].pc = "giveup",
                                        ![t].calls = @ + 1, ![t].last = outcome]
              /\ UNCHANGED promptFree
    /\ UNCHANGED notPrompt

\* "photo.prompt_generation_status = 'failed'" on both error paths
StatusOnErrorKept == "generating"
StatusOnError == "failed"

\* "All retries failed": "failed" is committed; the gate is left.
PromptGiveUp(t) ==
    /\ ptask[t].pc = "giveup"
    /\ ptask' = [ptask EXCEPT ![t].pc = "ended", ![t].status = StatusOnError]
    /\ promptFree' = promptFree + 1
    /\ UNCHANGED notPrompt

\* The outer "except": the photo is marked failed in a new session.
PromptExcept(t) ==
    /\ ptask[t].pc = "except"
    /\ ptask' = [ptask EXCEPT ![t].pc = "ended", ![t].status = StatusOnError]
    /\ promptFree' = promptFree + 1
    /\ UNCHANGED notPrompt

PromptNext ==
    \/ \E t \in DOMAIN ptask : PromptAcquire(t)
    \/ \E t \in DOMAIN ptask, found \in BOOLEAN : PromptLoad(t, found)
    \/ \E t \in DOMAIN ptask, ok \in BOOLEAN : PromptPath(t, ok)
    \/ \E t \in DOMAIN ptask, outcome \in {"ok", "rate_limited", "error"} :
          PromptCall(t, outcome)
    \/ \E t \in DOMAIN ptask : PromptGiveUp(t)
    \/ \E t \in DOMAIN ptask : PromptExcept(t)

\* ------------------------------------- background tasks run to their end

\* The states right after the requests that create background tasks: one
\* stylize accepted, or two regenerations, or MaxVideos generations, or one
\* export, or the prompt tasks of one upload.
FanOutCreated ==
    /\ \E n \in 0..MaxPhotos :
         photoStatus = [p \in Photos |-> IF p <= n THEN "uploaded" ELSE "none"]
    /\ photoStyled = [p \in Photos |-> NoPath]
    /\ variants = <<>>
    /\ nextPath = 1
    /\ projStatus = "processing"
    /\ fanPc = "query"
    /\ fanData = <<>>
    /\ fanIdx = 0
    /\ fanRuns = 1
    /\ taskPc = [p \in Photos |-> "idle"]
    /\ taskRes = [p \in Photos |-> "none"]
    /\ taskPath = [p \in Photos |-> NoPath]
    /\ styleFree = StyleCapacity
    /\ fanRaised = FALSE
    /\ fanFailed = {}
    /\ fanOld = [p \in Photos |-> NoPath]
    /\ SelQuiet
    /\ ExportQuiet

StyleTasksCreated ==
    /\ photoStatus = [p \in Photos |-> IF p <= SelPhotos THEN "styling" ELSE "none"]
    /\ photoStyled = [p \in Photos |-> NoPath]
    /\ variants = <<>>
    /\ nextPath = 1
    /\ projStatus = "draft"
    /\ fanPc = "idle"
    /\ fanData = <<>>
    /\ fanIdx = 0
    /\ fanRuns = 0
    /\ taskPc = [p \in Photos |-> "idle"]
    /\ taskRes = [p \in Photos |-> "none"]
    /\ taskPath = [p \in Photos |-> NoPath]
    /\ styleFree = StyleCapacity
    /\ fanRaised = FALSE
    /\ fanFailed = {}
    /\ fanOld = [p \in Photos |-> NoPath]
    /\ tx = [t \in Tasks |-> [IdleTx EXCEPT !.pc = "start", !.kind = "regen",
                                            !.photo = IF t <= SelPhotos THEN t ELSE 1]]
    /\ opsBegun = MaxTasks
    /\ lastResp = "started"
    /\ ExportQuiet

VideoTasksCreated ==
    /\ photoPos = [p \in 1..VidPhotos |-> p - 1]
    /\ \E k \in [1..MaxVideos -> {"scene", "transition"}] :
          videos = [v \in 1..MaxVideos |->
                      [photo |-> IF k[v] = "scene" THEN 1 ELSE 0, vtype |-> k[v],
                       status |-> "pending", sel |-> FALSE, path |-> NoVideoPath,
                       pos |-> 0, src |-> IF k[v] = "scene" THEN 0 ELSE 1,
                       tgt |-> IF k[v] = "scene" THEN 0 ELSE VidPhotos]]
    /\ vtask = [v \in 1..MaxVideos |-> "wait"]
    /\ videoFree = VideoCapacity
    /\ lastSel = NoSel
    /\ lastMain = NoMain
    /\ mtx = [t \in Tasks |-> IdleMain]
    /\ exports = <<>>
    /\ pipe = IdlePipe
    /\ OpsQuiet
    /\ StyleQuiet
    /\ SelQuiet

ExportTaskCreated ==
    /\ photoPos \in Positions
    /\ \E k \in [EPhotos -> VideoKinds] :
          videos = [p \in EPhotos |-> SceneVideo(p, k[p])]
    /\ \E v \in DOMAIN videos : videos[v].status = "ready"
    /\ exports = <<NewExport>>
    /\ \E include \in BOOLEAN :
          pipe = [IdlePipe EXCEPT !.pc = "start", !.eid = 1, !.include = include]
    /\ VideoQuiet
    /\ StyleQuiet
    /\ SelQuiet

PromptTasksCreated ==
    /\ ptask \in [1..PromptTasks ->
                    {[pc |-> "created", attempt |-> 0, status |-> st,
                      calls |-> 0, last |-> "none"] :
                        st \in {"pending", "completed"}}]
    /\ JobsQuiet
    /\ GatesQuiet
    /\ TakesQuiet
    /\ photoPos = <<>>
    /\ videos = <<>>
    /\ exports = <<>>
    /\ pipe = IdlePipe
    /\ StyleQuiet
    /\ SelQuiet

TasksInit ==
    \/ FanOutCreated
    \/ StyleTasksCreated
    \/ VideoTasksCreated
    \/ ExportTaskCreated
    \/ PromptTasksCreated

\* The steps of the background tasks; no request arrives meanwhile.
FanStepNext ==
    \/ FanQuery
    \/ FanMark
    \/ \E p \in Photos : StyleAcquire(p)
    \/ \E p \in Photos, ok \in BOOLEAN : StyleReturn(p, ok)
    \/ FanGathered
    \/ FanSave
    \/ FanProject

RegenTaskNext ==
    \/ \E t \in Tasks : RegenStart(t)
    \/ \E t \in Tasks : RegenAcquire(t)
    \/ \E t \in Tasks, ok \in BOOLEAN : RegenReturn(t, ok)
    \/ \E t \in Tasks : RegenRevert(t)
    \/ \E t \in Tasks : SaveRead(t)
    \/ \E t \in Tasks : SaveDone(t)

VideoStepNext ==
    \/ \E v \in DOMAIN vtask : VidAcquire(v)
    \/ \E v \in DOMAIN vtask : VidGenerating(v)
    \/ \E v \in DOMAIN vtask, ok \in BOOLEAN : VidReturn(v, ok)
    \/ \E v \in DOMAIN vtask : VidSave(v)
    \/ \E v \in DOMAIN vtask : VidFail(v)

ExportStepNext ==
    \/ ExpBegin
    \/ ExpCollect
    \/ ExpFrameProgress
    \/ \E ok \in BOOLEAN : ExpExtract(ok)
    \/ ExpTransProgress
    \/ \E ok \in BOOLEAN : ExpGenerate(ok)
    \/ ExpLoopCommit
    \/ ExpConcatProgress
    \/ \E ok \in BOOLEAN : ExpConcat(ok)
    \/ ExpThumbProgress
    \/ \E ok \in BOOLEAN : ExpThumb(ok)
    \/ ExpFinalize
    \/ ExpFail
    \/ ExpCleanup

TasksNext == FanStepNext \/ RegenTaskNext \/ VideoStepNext \/ ExportStepNext \/ PromptNext

\* The event loop runs every task that can take a step, and every external
\* call returns or raises.
SpecTasks == TasksInit /\ [][TasksNext]_vars /\ WF_vars(TasksNext)

\* Every task has ended.
TasksEnded ==
    /\ fanPc \in {"idle", "done"}
    /\ ~fanRaised
    /\ \A t \in Tasks : tx[t].pc = "idle"
    /\ \A v \in DOMAIN vtask : vtask[v] = "done"
    /\ pipe.pc \in {"none", "done"}
    /\ \A t \in DOMAIN ptask : ptask[t].pc = "ended"

\* No entity is left in an in-flight status.
NothingInFlight ==
    /\ \A p \in Photos : photoStatus[p] # "styling"
    /\ \A v \in DOMAIN videos : videos[v].status # "generating"
    /\ \A e \in DOMAIN exports : exports[e].status # "processing"
    /\ \A t \in DOMAIN ptask : ptask[t].status # "generating"

\* C18: with the process running and every external call returning or
\* raising, every background task ends, and a photo in "styling", a video
\* in "generating", an export in "processing" or a prompt in "generating"
\* is eventually written a status that is not in-flight, whichever
\* provider, ffmpeg or blob-store call fails.
C18_TasksEndWithStatus ==
    /\ <>[](TasksEnded /\ NothingInFlight)
    /\ \A p \in Photos : (photoStatus[p] = "styling") ~> (photoStatus[p] \in {"styled", "uploaded"})
    /\ \A v \in 1..MaxVideos :
          (v \in DOMAIN videos /\ videos[v].status = "generating")
              ~> (v \in DOMAIN videos /\ videos[v].status \in {"ready", "failed"})
    /\ (exports # <<>> /\ exports[1].status = "processing")
          ~> (exports # <<>> /\ exports[1].status \in {"ready", "failed"})
    /\ \A t \in 1..PromptTasks :
          (t \in DOMAIN ptask /\ ptask[t].status = "generating")
              ~> (t \in DOMAIN ptask /\ ptask[t].status \in {"completed", "failed"})

C18_Witness ==
    /\ pipe.pc = "done"
    /\ exports[1].status = "failed"
    /\ pipe.ffmpegFailed

\* C19: when a fan-out over at least one photo has finished, the project
\* is "draft" and no photo of the fan-out is "styling": a photo whose call
\* failed is "uploaded", every other one is "styled" and its only selected
\* variant is a new one carrying the path just produced.
C19_FanOutEndsInDraft ==
    (fanPc = "done" /\ fanData # <<>>) =>
        /\ projStatus = "draft"
        /\ \A p \in Photos : InFan(p) =>
              /\ photoStatus[p] # "styling"
              /\ p \in fanFailed => photoStatus[p] = "uploaded"
              /\ p \notin fanFailed =>
                    /\ photoStatus[p] = "styled"
                    /\ Cardinality(SelectedOf(p)) = 1
                    /\ \A v \in SelectedOf(p) :
                          /\ variants[v].path = taskPath[p]
                          /\ variants[v].path # fanOld[p]

C19_Witness ==
    /\ fanPc = "done"
    /\ Len(fanData) = MaxPhotos
    /\ fanData[2] \in fanFailed
    /\ fanData[1] \notin fanFailed
    /\ fanData[MaxPhotos] \notin fanFailed
    /\ projStatus = "draft"

\* ------------------------------------ startup with photos left in "styling"

\* Project.style is a String(50) column, Project.style_prompt a Text column.
StyleConfigs ==
    {NoStyle, [style |-> "", prompt |-> "null"],
     [style |-> "ghibli", prompt |-> "null"],
     [style |-> "ghibli", prompt |-> "warm"]}

\* The previous process stopped with each photo in any status: a photo in
\* "styling" is one whose style task was lost; a "styled" photo has its path.
PhotosLeft ==
    /\ photoStatus \in [Photos -> {"uploaded", "styling", "styled", "none"}]
    /\ \A p \in Photos : photoStatus[p] = "none" <=> p > SelPhotos
    /\ photoStyled = [p \in Photos |->
                        IF photoStatus[p] = "styled" THEN p ELSE NoPath]
    /\ variants = <<>>
    /\ nextPath = MaxPhotos + 1
    /\ projStatus = "draft"
    /\ fanPc = "idle"
    /\ fanData = <<>>
    /\ fanIdx = 0
    /\ fanRuns = 0
    /\ taskPc = [p \in Photos |-> "idle"]
    /\ taskRes = [p \in Photos |-> "none"]
    /\ taskPath = [p \in Photos |-> NoPath]
    /\ styleFree = StyleCapacity
    /\ fanRaised = FALSE
    /\ fanFailed = {}
    /\ fanOld = [p \in Photos |-> NoPath]
    /\ projStyle \in [Projects -> StyleConfigs]

\* The process starts: lifespan has not yet run.
ResumeInit ==
    /\ PhotosLeft
    /\ SelQuiet
    /\ photoPos = <<>>
    /\ videos = <<>>
    /\ exports = <<>>
    /\ pipe = IdlePipe
    /\ TakesQuiet
    /\ GatesQuiet
    /\ ptask = <<>>
    /\ jobs = <<>>
    /\ sweep = [SleepingSweep EXCEPT !.pc = "off"]
    /\ clock = 0
    /\ boot = [phase |-> "start", resetOk |-> FALSE, before |-> jobs,
               served |-> FALSE, photos |-> photoStatus, launched |-> {}]

ResumeNext == BootNext \/ RegenTaskNext

\* lifespan runs to its yield, the event loop runs every task created, and
\* every provider call returns or raises; no request arrives.
SpecResume == ResumeInit /\ [][ResumeNext]_vars /\ WF_vars(ResumeNext)

\* The tasks resume_stuck_style_transfers created for photo p.
LaunchedFor(p) == {r \in boot.launched : r.photo = p}

VideosLeft ==
    /\ \E st \in {"pending", "generating", "ready", "failed"} :
          videos = <<[SceneVideo(1, "pending") EXCEPT
                        !.status = st,
                        !.path = IF st = "ready" THEN <<"scene", 1>>
                                                 ELSE NoVideoPath]>>
    /\ photoPos = [p \in 1..VidPhotos |-> p - 1]
    /\ exports = <<>>
    /\ ptask = <<>>

\* An Export row was left behind in any status, process_export with it.
ExportsLeft ==
    /\ \E st \in {"pending", "processing", "ready", "failed"} :
          exports = <<[NewExport EXCEPT !.status = st, !.file = (st = "ready"),
                                        !.percent = IF st = "ready" THEN 100 ELSE 0]>>
    /\ photoPos = [p \in 1..VidPhotos |-> p - 1]
    /\ videos = <<SceneVideo(1, "ready_selected")>>
    /\ ptask = <<>>

\* A photo was left behind with its prompt generation in any status,
\* generate_prompt_for_photo with it.
PromptsLeft ==
    /\ ptask \in [1..1 -> {[pc |-> "lost", attempt |-> 0, status |-> st,
                            calls |-> 0, last |-> "none"] :
                              st \in {"pending", "generating", "completed",
                                      "failed"}}]
    /\ photoPos = <<>>
    /\ videos = <<>>
    /\ exports = <<>>

\* The process starts after an unclean shutdown.
RecoverInit ==
    \/ ResumeInit
    \/ JobInit
    \/ /\ VideosLeft \/ ExportsLeft \/ PromptsLeft
       /\ pipe = IdlePipe
       /\ TakesQuiet
       /\ GatesQuiet
       /\ StyleQuiet
       /\ SelQuiet
       /\ jobs = <<>>
       /\ sweep = [SleepingSweep EXCEPT !.pc = "off"]
       /\ clock = MaxNow
       /\ projStyle = [pr \in Projects |-> NoStyle]
       /\ boot = [phase |-> "start", resetOk |-> FALSE, before |-> jobs,
                  served |-> FALSE, photos |-> photoStatus, launched |-> {}]

RecoverNext == BootNext \/ RegenTaskNext \/ SweepNext

\* lifespan runs to its yield, the event loop runs every task, the detector
\* wakes from every sleep and the store answers a whole iteration again
\* and again; no request arrives.
SpecRecover ==
    /\ RecoverInit
    /\ [][RecoverNext]_vars
    /\ WF_vars(BootNext)
    /\ WF_vars(RegenTaskNext)
    /\ SF_vars(SweepRead(TRUE))
    /\ SF_vars(SweepCommit(TRUE))

\* The parts of C22 by kind of entity.
PhotosRecovered ==
    \A p \in Photos :
        (photoStatus[p] = "styling") ~> (photoStatus[p] \in {"styled", "uploaded"})

JobsRecovered ==
    \A j \in 1..BootJobs :
        (j \in DOMAIN jobs /\ jobs[j].status = "running")
            ~> (j \in DOMAIN jobs /\ jobs[j].status = "failed")

VideosRecovered ==
    (videos # <<>> /\ videos[1].status \in {"pending", "generating"})
        ~> (videos # <<>> /\ videos[1].status \in {"ready", "failed"})

ExportsRecovered ==
    (exports # <<>> /\ exports[1].status \in {"pending", "processing"})
        ~> (exports # <<>> /\ exports[1].status \in {"ready", "failed"})

PromptsRecovered ==
    (ptask # <<>> /\ ptask[1].status = "generating")
        ~> (ptask # <<>> /\ ptask[1].status \in {"pending", "completed", "failed"})

\* C22: after an unclean shutdown and a restart, every entity left in a
\* non-terminal status (a video pending or generating, an export pending or
\* processing, a photo in styling or with its prompt generating, a job
\* running) is eventually resumed or moved to a failed or initial status by
\* the startup and periodic routines alone.
C22_NonTerminalRecovered ==
    /\ PhotosRecovered
    /\ JobsRecovered
    /\ VideosRecovered
    /\ ExportsRecovered
    /\ PromptsRecovered

\* ------------------------------------------ the detector while serving

\* The process serves; Job rows of both classes exist, just created.
DetectorInit ==
    /\ jobs \in [1..BootJobs ->
                   {[status |-> st, error |-> "", done |-> (st = "completed"),
                     jtype |-> ty, created |-> 0, at |-> 0] :
                        st \in {"running", "completed"},
                        ty \in {"style_transfer", "export"}}]
    /\ boot = [phase |-> "serving", resetOk |-> TRUE, before |-> <<>>,
               served |-> FALSE, photos |-> <<>>, launched |-> {}]
    /\ sweep = SleepingSweep
    /\ clock = 0
    /\ projStyle = [pr \in Projects |-> NoStyle]
    /\ photoPos = <<>>
    /\ videos = <<>>
    /\ exports = <<>>
    /\ pipe = IdlePipe
    /\ TakesQuiet
    /\ StyleQuiet
    /\ SelQuiet
    /\ GatesQuiet
    /\ ptask = <<>>

DetectorNext ==
    \/ SweepNext
    \/ Tick
    \/ \E ty \in {"style_transfer", "export"} : create_job(ty)
    \/ \E j \in 1..MaxJobs : complete_job(j)
    \/ Shutdown

\* The detector wakes from every sleep and every store call returns or
\* raises.
SpecDetector == DetectorInit /\ [][DetectorNext]_vars /\ WF_vars(SweepNext)

\* C23: one iteration of the detector selects exactly the running jobs
\* whose age since creation exceeds the timeout of their class (the export
\* timeout for job_type "export", the default timeout for every other
\* type), marks those failed with "Job timed out (stuck detection)" and
\* changes no other job (an iteration that raises changes none); a running
\* export job older than the default timeout but not older than the export
\* timeout stays running.
C23_SweepMarksOverdue ==
    [][/\ (sweep.pc = "sleep" /\ sweep'.pc = "loaded") =>
            sweep'.loaded =
                {j \in DOMAIN jobs :
                    /\ jobs[j].status = "running"
                    /\ clock - jobs[j].created >
                          (IF jobs[j].jtype = "export" THEN ExportTimeout
                                                       ELSE StuckTimeout)}
       /\ (sweep.pc = "loaded" /\ sweep'.pc = "sleep" /\ ~sweep'.raised) =>
            /\ DOMAIN jobs' = DOMAIN jobs
            /\ \A j \in DOMAIN jobs :
                  IF j \in sweep.loaded
                  THEN jobs'[j] = [jobs[j] EXCEPT
                                     !.status = "failed",
                                     !.error = "Job timed out (stuck detection)",
                                     !.done = TRUE, !.at = sweep.now]
                  ELSE jobs'[j] = jobs[j]]_vars

C23_Witness ==
    /\ sweep.pc = "sleep"
    /\ \E j \in DOMAIN jobs :
          /\ jobs[j].jtype = "export"
          /\ jobs[j].status = "running"
          /\ clock - jobs[j].created > StuckTimeout
          /\ clock - jobs[j].created <= ExportTimeout
    /\ \E j \in DOMAIN jobs :
          /\ jobs[j].jtype = "style_transfer"
          /\ jobs[j].error = "Job timed out (stuck detection)"
          /\ jobs[j].at = clock

\* C24: an iteration of the detector that follows a completed iteration,
\* with no job created or changed and no job crossing its timeout in
\* between, changes nothing: the jobs after it are the jobs before it.
C24_SecondSweepChangesNothing ==
    [][(sweep.pc = "loaded" /\ sweep'.pc = "sleep" /\ sweep.again /\ sweep.quiet)
          => jobs' = jobs]_vars

C24_Witness ==
    /\ sweep.pc = "loaded"
    /\ sweep.again
    /\ sweep.quiet
    /\ sweep.now > 0
    /\ \E j \in DOMAIN jobs : jobs[j].error = "Job timed out (stuck detection)"
    /\ \E j \in DOMAIN jobs : jobs[j].status = "running"

\* C25: when an iteration of the detector has ended in its except clause,
\* a further iteration begins after the sleep, unless the task has been
\* cancelled at shutdown.
C25_SweepSurvivesErrors ==
    \A b \in {0, 1} :
        (sweep.raised /\ sweep.iter = b)
            ~> (sweep.iter # b \/ sweep.pc = "cancelled")

C25_Witness ==
    /\ sweep.raised
    /\ sweep.pc = "sleep"
    /\ \E j \in DOMAIN jobs : jobs[j].error = "Job timed out (stuck detection)"

\* ----------------------------------------- success status and artifact path

\* C26: in every committed state a video that is "ready" has a video_path,
\* an export that is "ready" has a file_path and a photo that is "styled"
\* has a styled_path: no poll sees the success status without the path.
C26_SuccessHasPath ==
    /\ \A v \in DOMAIN videos :
          videos[v].status = "ready" => videos[v].path # NoVideoPath
    /\ \A e \in DOMAIN exports : exports[e].status = "ready" => exports[e].file
    /\ \A p \in Photos : photoStatus[p] = "styled" => photoStyled[p] # NoPath

C26_Witness ==
    /\ exports # <<>>
    /\ exports[1].status = "ready"
    /\ exports[1].file
    /\ pipe.pc = "done"
    /\ \E v \in DOMAIN videos :
          videos[v].vtype = "transition" /\ videos[v].status = "ready"

\* ------------------------------------------ process_export, scratch space

\* C27: when process_export has returned, the temporary directory it
\* created for the frames or for the thumbnail has been removed, whether
\* the export succeeded, a transition attempt or the thumbnail failed, or
\* the pipeline failed.
C27_TempDirRemoved == pipe.pc = "done" => pipe.framesDir # "exists"

C27_Witness ==
    /\ pipe.pc = "done"
    /\ pipe.framesDir = "removed"
    /\ exports[pipe.eid].status = "failed"
    /\ pipe.ffmpegFailed

\* ------------------------------------------- process_export, notification

\* ConnectionManager.send_export_complete: the "export_complete" event for
\* the project's connections, with the export id and the file URL.  No
\* handler and no task calls it.
send_export_complete(sent, e, url) ==
    sent \cup {[event |-> "export_complete", export |-> e, url |-> url]}

\* C28: when process_export has made an export "ready", it has published an
\* export-complete event with the export id and the output's URL to the
\* project's WebSocket topic.
C28_ExportCompletePublished ==
    (pipe.pc = "done" /\ exports[pipe.eid].status = "ready") =>
        \E ev \in pipe.sent : ev.event = "export_complete" /\ ev.export = pipe.eid

\* ------------------------------------------------------- reordering photos

\* The project has its photos in upload order and no video yet.
ReorderInit ==
    /\ photoPos = [p \in EPhotos |-> p - 1]
    /\ videos = <<>>
    /\ exports = <<>>
    /\ pipe = IdlePipe
    /\ VideoQuiet
    /\ StyleQuiet
    /\ SelQuiet

\* The lists that name every photo of the project once.
PhotoPermutations ==
    {order \in [EPhotos -> EPhotos] :
        \A i, k \in EPhotos : i # k => order[i] # order[k]}

\* PhotoReorderRequest.photo_ids: the permutations, and the shorter lists of
\* ids, of the project or not, repeated or not.
Orders ==
    PhotoPermutations
    \cup UNION {[1..n -> 1..(ExpPhotos + 1)] : n \in 0..(ExpPhotos - 1)}

\* reorder_photos, "for i, photo_id in enumerate(reorder_data.photo_ids):
\* if photo_id in photos: photos[photo_id].position = i"
Reordered(pos, order) ==
    [p \in DOMAIN pos |->
        IF \E i \in DOMAIN order : order[i] = p
        THEN (CHOOSE i \in DOMAIN order :
                 /\ order[i] = p
                 /\ \A k \in DOMAIN order : order[k] = p => k <= i) - 1
        ELSE pos[p]]

\* reorder_photos, "for video in videos: if video.photo_id in photos:
\* video.position = photos[video.photo_id].position" over the videos with a
\* photo_id
VideosKeptInPlace(vs, pos) == vs
VideosFollow(vs, pos) ==
    [v \in DOMAIN vs |->
        IF vs[v].photo \in DOMAIN pos
        THEN [vs[v] EXCEPT !.pos = pos[vs[v].photo]]
        ELSE vs[v]]

\* PUT /projects/{id}/photos/reorder: the photos named get their index in
\* the list, the videos of the project's photos get their photo's position;
\* one commit.
reorder_photos(order) ==
    /\ photoPos' = Reordered(photoPos, order)
    /\ videos' = VideosFollow(videos, photoPos')
    /\ lastSel' = [NoSel EXCEPT !.resp = "reordered"]
    /\ UNCHANGED <<vtask, videoFree, styleVars, selVars, exports, pipe,
                   mainVars, opsVars>>

\* PUT /photos/{id} with a position: 404 for an unknown photo; otherwise
\* the photo's position is written, no video is touched.
update_photo(p, pos) ==
    /\ photoPos' = IF p \in DOMAIN photoPos THEN [photoPos EXCEPT ![p] = pos]
                                            ELSE photoPos
    /\ lastSel' = NoSel
    /\ UNCHANGED <<videos, vtask, videoFree, styleVars, selVars, exports, pipe,
                   mainVars, opsVars>>

ReorderNext ==
    \/ \E order \in Orders : reorder_photos(order)
    \/ \E p \in 1..(ExpPhotos + 1), pos \in 0..(ExpPhotos - 1) : update_photo(p, pos)
    \/ \E p \in EPhotos, hasPrompt \in BOOLEAN :
          generate_video_from_photo(p, hasPrompt)
    \/ generate_transition_video(1, 2)

SpecReorder == ReorderInit /\ [][ReorderNext]_vars

\* C29: when reorder_photos is served with a permutation of the project's
\* photo ids, the photo at index i of the list gets position i (counted
\* from 0), and afterwards every video with a photo_id has its photo's
\* position.
C29_ReorderSetsPositions ==
    [][\A order \in PhotoPermutations :
          reorder_photos(order) =>
              /\ \A i \in DOMAIN order : photoPos'[order[i]] = i - 1
              /\ \A v \in DOMAIN videos' :
                    videos'[v].photo # 0 =>
                        videos'[v].pos = photoPos'[videos'[v].photo]]_vars

C29_Witness ==
    /\ lastSel.resp = "reordered"
    /\ photoPos = (1 :> 1) @@ (2 :> 2) @@ (3 :> 0)
    /\ \E v \in DOMAIN videos : videos[v].photo = 3 /\ videos[v].pos = 0
    /\ \E v \in DOMAIN videos : videos[v].photo = 1 /\ videos[v].pos = 1
    /\ \E v \in DOMAIN videos : videos[v].vtype = "transition"

\* ----------------------------------- process_export, frame extraction fails

\* C30: a failure of extract_frame for a pair is handled like a failed
\* transition attempt, a hard cut at that boundary, so that the pipeline
\* goes on and the export is "ready" when it ends, unless the
\* concatenation itself failed.
C30_ExtractFailureIsHardCut ==
    (/\ pipe.pc = "done"
     /\ pipe.collected
     /\ pipe.scenes # <<>>
     /\ ~(pipe.concats = 1 /\ pipe.ffmpegFailed)) =>
        TheExport.status = "ready"

\* ------------------------------ calls to the video provider, all callers

\* One export with transitions over the ready scenes of photos 1 and 2 has
\* been started, and as many video generations as the gate admits have been
\* requested: one scene take of the last photo, and transitions asked
\* through the API.
CallsInit ==
    /\ photoPos = [p \in EPhotos |-> p - 1]
    /\ videos = [v \in 1..(2 + VideoCapacity) |->
                   IF v <= 2 THEN SceneVideo(v, "ready_selected")
                   ELSE [photo |-> IF v = 3 THEN ExpPhotos ELSE 0,
                         vtype |-> IF v = 3 THEN "scene" ELSE "transition",
                         status |-> "pending", sel |-> FALSE,
                         path |-> NoVideoPath, pos |-> 0,
                         src |-> IF v = 3 THEN 0 ELSE 1,
                         tgt |-> IF v = 3 THEN 0 ELSE 2]]
    /\ vtask = [v \in 1..(2 + VideoCapacity) |->
                  IF v <= 2 THEN "done" ELSE "wait"]
    /\ videoFree = VideoCapacity
    /\ lastSel = NoSel
    /\ lastMain = NoMain
    /\ mtx = [t \in Tasks |-> IdleMain]
    /\ exports = <<NewExport>>
    /\ pipe = [IdlePipe EXCEPT !.pc = "start", !.eid = 1, !.include = TRUE]
    /\ OpsQuiet
    /\ StyleQuiet
    /\ SelQuiet

CallsNext == VideoStepNext \/ ExportStepNext

SpecCalls == CallsInit /\ [][CallsNext]_vars

\* fal_ai_service.generate_video in process_video_generation and
\* fal_ai_service.generate_transition in process_export that have been
\* awaited and have not returned.
InFlightCalls ==
    Cardinality({v \in DOMAIN vtask : vtask[v] = "call"})
        + (IF pipe.pc = "generate" THEN 1 ELSE 0)

\* C31: at every moment at most max_concurrent_video_generations calls to
\* the video provider are in flight, counting scene generation, transitions
\* asked through the API and the transitions of export pipelines.
C31_ProviderCallsBounded == InFlightCalls <= VideoCapacity

\* ----------------------------------------- a failed style call, the revert

\* The status a photo had when the running fan-out was requested.  In the
\* first and second fan-out of a project it is "styled" if the earlier
\* fan-out saved a result for it (fanOld is its styled_path at the
\* request) and "uploaded" otherwise.
StatusBeforeFanOut(p) == IF fanOld[p] # NoPath THEN "styled" ELSE "uploaded"

\* C32: when the style call of a photo fails, the photo's status goes back
\* to the status it had before the operation began: a photo that was
\* "styled" before a failed re-style is "styled" again, a photo that was
\* "uploaded" is "uploaded".
C32_FailureRevertsStatus ==
    (fanPc = "done" /\ fanRuns <= 2) =>
        \A p \in fanFailed : photoStatus[p] = StatusBeforeFanOut(p)

\* ---------------------------------------- fan-out, marking before calling

\* C33: in a project-wide fan-out every photo of the project is committed
\* as "styling" before the first style call of the fan-out begins, so
\* while a task of the fan-out waits for the gate or is inside its call,
\* every photo of the project, the waiting ones included, is "styling".
C33_AllStylingBeforeFirstCall ==
    (\E p \in Photos : taskPc[p] \in {"wait", "call"}) =>
        \A q \in Photos : photoStatus[q] # "none" => photoStatus[q] = "styling"

C33_Witness ==
    /\ taskPc[1] = "call"
    /\ taskPc[2] = "wait"
    /\ photoStatus[2] = "styling"
    /\ fanRuns = 2

\* ------------------------------------------ fan-out over an empty project

\* C34: when the fan-out task of a project without photos has finished, the
\* project is "draft"; it does not stay "processing" with no photo in
\* flight.
C34_EmptyFanOutEndsInDraft ==
    (fanRuns > 0 /\ fanPc = "done" /\ fanData = <<>>) => projStatus = "draft"

\* ------------------------------------- the status steps of a photo, reset

\* POST /projects/{id}/reset-stuck: every photo of the project that is
\* "styling" is set to "uploaded" and a "processing" project to "draft",
\* in one commit; the tasks in flight are not touched.
reset_stuck_photos ==
    /\ photoStatus' = [p \in Photos |->
                          IF photoStatus[p] = "styling" THEN "uploaded"
                          ELSE photoStatus[p]]
    /\ projStatus' = IF projStatus = "processing" THEN "draft" ELSE projStatus
    /\ UNCHANGED <<photoStyled, variants, nextPath, fanPc, fanData, fanIdx,
                   fanRuns, taskPc, taskRes, taskPath, styleFree, fanRaised,
                   fanFailed, fanOld, notStyle>>

RestyleNext == FanNext \/ reset_stuck_photos

SpecRestyle == StyleInit /\ [][RestyleNext]_vars

\* Photo.status: the steps named for a photo.
PhotoSteps ==
    {<<"uploaded", "styling">>, <<"styling", "styled">>,
     <<"styling", "uploaded">>, <<"styled", "uploaded">>}

\* C35: every committed status change of a photo is uploaded->styling,
\* styling->styled, styling->uploaded or styled->uploaded: a "styled" photo
\* is first put back to "uploaded" before it becomes "styling" again, and a
\* photo becomes "styled" only from "styling", also when reset-stuck runs
\* while its style task is in flight.
C35_PhotoStatusSteps ==
    [][\A p \in Photos :
          photoStatus'[p] # photoStatus[p] =>
              <<photoStatus[p], photoStatus'[p]>> \in PhotoSteps]_vars

\* -------------------------------------- a video becomes ready, every writer

\* C36: no Video row is committed as "ready" unless it was committed as
\* "generating" before: a row that turns "ready" in a commit, or first
\* appears as "ready", was "generating" just before; the transition rows
\* that the export pipeline adds are included.
C36_ReadyOnlyAfterGenerating ==
    [][\A v \in DOMAIN videos' :
          (/\ videos'[v].status = "ready"
           /\ (v \in DOMAIN videos => videos[v].status # "ready")) =>
              (v \in DOMAIN videos /\ videos[v].status = "generating")]_vars

\* ------------------------------------------- process_export, the thumbnail

\* C37: when the thumbnail could not be extracted, encoded or stored, the
\* export still ends "ready" with its file path set and progress 100, and
\* its thumbnail path stays null.
C37_ThumbnailFailureNotFatal ==
    (pipe.thumbFailed /\ pipe.pc \in {"cleanup", "done"}) =>
        /\ TheExport.status = "ready"
        /\ TheExport.file
        /\ TheExport.percent = 100
        /\ ~TheExport.thumb

C37_Witness ==
    /\ pipe.pc = "done"
    /\ pipe.thumbFailed
    /\ TheExport.status = "ready"
    /\ pipe.genFailed # {}

\* ------------------------------------ generate_prompt_for_photo, the retries

SpecPrompt == PromptTasksCreated /\ [][PromptNext]_vars

\* C38: generate_prompt_for_photo calls the prompt provider at most
\* max_retries times; it makes a further call only after a rate-limit
\* error and none after an error of another kind; when it has made a call
\* and ended, the prompt status is "completed" if a call succeeded and
\* "failed" otherwise.
C38_PromptRetries ==
    \A t \in DOMAIN ptask :
        /\ ptask[t].calls <= MaxRetries
        /\ (ptask[t].pc = "call" /\ ptask[t].calls > 0) =>
               ptask[t].last = "rate_limited"
        /\ ptask[t].last \in {"ok", "error"} => ptask[t].pc \in {"giveup", "ended"}
        /\ (ptask[t].pc = "ended" /\ ptask[t].calls > 0) =>
               ptask[t].status = IF ptask[t].last = "ok" THEN "completed"
                                 ELSE "failed"

C38_Witness ==
    /\ \A t \in DOMAIN ptask : ptask[t].pc = "ended"
    /\ ptask[1].calls = MaxRetries /\ ptask[1].status = "failed"
    /\ ptask[2].calls = MaxRetries /\ ptask[2].status = "completed"
    /\ ptask[3].calls = 1 /\ ptask[3].last = "error" /\ ptask[3].status = "failed"

\* --------------------------------------- uploads, imports and positions

\* An empty project.
UploadInit ==
    /\ photoPos = <<>>
    /\ videos = <<>>
    /\ exports = <<>>
    /\ pipe = IdlePipe
    /\ VideoQuiet
    /\ StyleQuiet
    /\ SelQuiet

\* "select(Photo.position)...order_by(Photo.position.desc()).limit(1)" and
\* "max_position = result.scalar() or -1": scalar() is None for a project
\* without photos, and Python's "or" takes its right operand when the left
\* one is None or 0.
MaxPosition(pos) ==
    IF pos = <<>> THEN -1
    ELSE LET m == CHOOSE x \in {pos[p] : p \in DOMAIN pos} :
                     \A p \in DOMAIN pos : pos[p] <= x
         IN IF m = 0 THEN -1 ELSE m

\* asyncio.create_task(generate_prompt_for_photo(photo.id, ...))
NewPromptTask == [pc |-> "created", attempt |-> 0, status |-> "pending",
                  calls |-> 0, last |-> "none"]

\* The rows of one request: file number i, counted from 1, of those kept
\* gets position max_position + i (the code's i counts from 0 and adds 1).
Uploaded(pos, kept) ==
    pos \o [k \in 1..Len(kept) |-> MaxPosition(pos) + kept[k]]

\* POST /projects/{id}/photos with n files: a file with a wrong extension or
\* size ends the request with 400 before anything is committed; otherwise
\* the n rows are committed at once and a prompt task is created for each.
upload_photos(n, valid) ==
    /\ Len(photoPos) + n <= MaxUploaded
    /\ IF valid
       THEN /\ photoPos' = Uploaded(photoPos, [i \in 1..n |-> i])
            /\ ptask' = ptask \o [i \in 1..n |-> NewPromptTask]
       ELSE UNCHANGED <<photoPos, ptask>>
    /\ UNCHANGED <<videos, exports, pipe, styleVars, selVars, videoVars,
                   mainVars, jobVars, gateVars>>

\* POST /google-photos/import of a session with m photos: an item whose
\* download or save fails is recorded as an error and skipped; the others
\* are committed at once, each with the position of its index in the
\* session.
import_google_photos(m, ok) ==
    /\ Len(photoPos) + Cardinality(ok) <= MaxUploaded
    /\ LET kept == SelectSeq([i \in 1..m |-> i], LAMBDA i : i \in ok) IN
          /\ photoPos' = Uploaded(photoPos, kept)
          /\ ptask' = ptask \o [k \in 1..Len(kept) |-> NewPromptTask]
    /\ UNCHANGED <<videos, exports, pipe, styleVars, selVars, videoVars,
                   mainVars, jobVars, gateVars>>

\* PhotoReorderRequest.photo_ids naming every photo of the project once.
FullOrders(pos) ==
    {order \in [DOMAIN pos -> DOMAIN pos] :
        \A i, k \in DOMAIN pos : i # k => order[i] # order[k]}

UploadNext ==
    \/ \E n \in 1..MaxFiles, valid \in BOOLEAN : upload_photos(n, valid)
    \/ \E m \in 1..MaxFiles : \E ok \in SUBSET (1..m) : import_google_photos(m, ok)
    \/ \E order \in FullOrders(photoPos) : reorder_photos(order)

SpecUpload == UploadInit /\ [][UploadNext]_vars

\* C39: after any sequence of uploads, Google Photos imports and reorders
\* that name every photo, no two photos of the project have the same
\* position.
C39_PositionsUnique ==
    \A p, q \in DOMAIN photoPos : p # q => photoPos[p] # photoPos[q]

\* --------------------------------------- process_export, progress_percent

\* C40: while an export is "processing", its committed progress_percent
\* never goes down from one update to the next and always lies between 0
\* and 100, for every number of scenes and every pattern of failed
\* transitions.
C40_ProgressMonotone ==
    [][\A e \in DOMAIN exports :
          (exports[e].status = "processing" /\ exports'[e].status = "processing") =>
              /\ exports'[e].percent >= exports[e].percent
              /\ exports'[e].percent \in 0..100]_vars
====
